---- MODULE Spec2Model ----
(***************************************************************************)
(* Vlast: a browser dashboard for GitHub repositories.                     *)
(*                                                                         *)
(* The model covers the token store (useAuth), the two API clients         *)
(* (the GitHubApi class of utils/api and the githubApi object of           *)
(* utils/githubApi), the query/mutation hooks with the retry and           *)
(* invalidation policy configured in App.tsx, and the routes.              *)
(*                                                                         *)
(* Strings that the code builds from templates are sequences of their      *)
(* parts, so that two messages are equal only when the code would build    *)
(* the same text.  A value that JavaScript leaves undefined is the empty   *)
(* sequence <<>>, a defined value v is <<v>>.                              *)
(***************************************************************************)
EXTENDS Integers, Sequences, FiniteSets, TLC

VARIABLES
  localStorage,   \* browser storage: a function whose domain is the set of keys present
  route,          \* the path the router currently shows
  cache,          \* the query cache of the QueryClient: query key -> query state
  orphaned,       \* how many cancelled fetches still have their HTTP exchange open
  login,          \* the TokenSubmission form and the login() call it awaits
  mutation,       \* the mutation hook call in progress
  last,           \* the last thing that happened (for "immediately after" statements)
  apiIn,          \* an API client call: client, operation, argument, HTTP answer
  apiOut,         \* what that call did: requests sent and value returned or error thrown
  ui,             \* the state of the components of the pages: dialogs, flags, messages shown
  visibility      \* the private flag of each repository: on the server (remote) and
                  \* in the data of the list query (listed)

vars == <<localStorage, route, cache, orphaned, login, mutation, last, apiIn, apiOut, ui, visibility>>

sessionVars == <<localStorage, route, cache, orphaned, login, mutation, last>>

apiVars == <<apiIn, apiOut>>

uiVars == <<ui>>

----------------------------------------------------------------------------
(* Bounds *)

\* how many queries the cache may hold at once
MaxQueries == 2

\* how many cancelled fetches with an open HTTP exchange are kept track of
MaxOrphans == 1

\* how many UTF-16 code units a file content has at most
MaxLen == 3

\* refresh timers that can be pending at once
MaxTimers == 2

\* length of the repository lists enumerated in full
MaxShort == 2

\* pages the longest repository list fills
MaxPages == 3

\* characters typed in front of a repository name made of one letter repeated
MaxTyped == 2

----------------------------------------------------------------------------
(* config/environment.ts *)

tokenKey == "github_access_token"

baseUrl == "https://api.github.com"

----------------------------------------------------------------------------
(* Values *)

\* what localStorage.getItem returns for a key that is not present
Null == <<"null">>

\* texts a user can type into the token field; <<>> is the empty string
TokenTexts == {<<>>, <<" ">>, <<"a">>, <<"b", " ">>}

\* String.prototype.trim on a text of the model
RECURSIVE TrimStart(_)
TrimStart(s) == IF s # <<>> /\ Head(s) = " " THEN TrimStart(Tail(s)) ELSE s

RECURSIVE TrimEnd(_)
TrimEnd(s) == IF s # <<>> /\ s[Len(s)] = " " THEN TrimEnd(SubSeq(s, 1, Len(s) - 1)) ELSE s

trim(s) == TrimEnd(TrimStart(s))

\* JavaScript truthiness of a string-or-null value
Truthy(v) == v # Null /\ v # <<>>

getItem(storage, key) == IF key \in DOMAIN storage THEN storage[key] ELSE Null

setItem(storage, key, value) == [k \in (DOMAIN storage) \cup {key} |-> IF k = key THEN value ELSE storage[k]]

removeItem(storage, key) == [k \in (DOMAIN storage) \ {key} |-> storage[k]]

\* the storage states the program itself can leave behind for a later page load:
\* no token, or a token that passed the blank check of TokenSubmission
Storages == {[k \in {} |-> <<>>]} \cup {[k \in {tokenKey} |-> t] : t \in {x \in TokenTexts : trim(x) # <<>>}}

----------------------------------------------------------------------------
(* HTTP answers *)

Statuses == {200, 204, 401, 403, 404, 422, 500}

\* Response.ok
ok(response) == response.status >= 200 /\ response.status <= 299

\* Response.statusText
statusText(status) ==
  CASE status = 200 -> "OK"
    [] status = 204 -> "No Content"
    [] status = 401 -> "Unauthorized"
    [] status = 403 -> "Forbidden"
    [] status = 404 -> "Not Found"
    [] status = 422 -> "Unprocessable Entity"
    [] OTHER -> "Internal Server Error"

\* sub-errors of a GitHub error body
NameExists == [resource |-> "Repository", field |-> "name", code |-> "already_exists"]

NameInvalid == [resource |-> "Repository", field |-> "name", code |-> "invalid"]

OtherExists == [resource |-> "Repository", field |-> "description", code |-> "already_exists"]

ErrorLists == {<<>>, <<NameExists>>, <<NameInvalid>>, <<OtherExists>>, <<NameInvalid, NameExists>>}

ServerMessages == {"Validation Failed", "Bad credentials"}

\* a body that does not parse as JSON, or a JSON object with an optional
\* message and an optional list of sub-errors
Bodies ==
  {[json |-> FALSE, message |-> <<>>, errors |-> <<>>]}
  \cup {[json |-> TRUE, message |-> m, errors |-> e] :
          m \in {<<>>} \cup {<<x>> : x \in ServerMessages},
          e \in {<<>>} \cup {<<l>> : l \in ErrorLists}}

\* what fetch() does: it rejects (offline, DNS failure) or resolves with a response
Answers ==
  {[kind |-> "reject", status |-> 0, body |-> [json |-> FALSE, message |-> <<>>, errors |-> <<>>]]}
  \cup {[kind |-> "response", status |-> s, body |-> b] : s \in Statuses, b \in Bodies}

----------------------------------------------------------------------------
(* File contents: JavaScript strings as sequences of UTF-16 code units *)

\* '%', '4', e-acute, the euro sign, and the two halves of a surrogate pair
CodeUnits == {37, 52, 233, 8364, 55357, 56832}

Texts == UNION {[1..n -> CodeUnits] : n \in 0..MaxLen}

IsHigh(u) == u >= 55296 /\ u <= 56319

IsLow(u) == u >= 56320 /\ u <= 57343

\* no lone surrogate: the strings encodeURIComponent accepts
RECURSIVE WellFormed(_)
WellFormed(s) ==
  IF s = <<>> THEN TRUE
  ELSE IF IsHigh(s[1]) THEN Len(s) >= 2 /\ IsLow(s[2]) /\ WellFormed(SubSeq(s, 3, Len(s)))
  ELSE IF IsLow(s[1]) THEN FALSE
  ELSE WellFormed(Tail(s))

\* the UTF-8 bytes of a code point
UTF8(cp) ==
  IF cp < 128 THEN <<cp>>
  ELSE IF cp < 2048 THEN <<192 + cp \div 64, 128 + (cp % 64)>>
  ELSE IF cp < 65536 THEN <<224 + cp \div 4096, 128 + ((cp \div 64) % 64), 128 + (cp % 64)>>
  ELSE <<240 + cp \div 262144, 128 + ((cp \div 4096) % 64), 128 + ((cp \div 64) % 64), 128 + (cp % 64)>>

\* the character of a hexadecimal digit, upper case
HexChar(d) == IF d < 10 THEN 48 + d ELSE 55 + d

\* the value of a hexadecimal digit character, -1 for any other character
HexValue(c) ==
  IF c >= 48 /\ c <= 57 THEN c - 48
  ELSE IF c >= 65 /\ c <= 70 THEN c - 55
  ELSE IF c >= 97 /\ c <= 102 THEN c - 87
  ELSE 0 - 1

\* %XX for every byte
RECURSIVE Percent(_)
Percent(bytes) ==
  IF bytes = <<>> THEN <<>>
  ELSE <<37, HexChar(bytes[1] \div 16), HexChar(bytes[1] % 16)>> \o Percent(Tail(bytes))

\* A-Z a-z 0-9 - _ . ! ~ * ' ( )
Unreserved(u) ==
  \/ (u >= 48 /\ u <= 57) \/ (u >= 65 /\ u <= 90) \/ (u >= 97 /\ u <= 122)
  \/ u \in {45, 95, 46, 33, 126, 42, 39, 40, 41}

\* encodeURIComponent of a well-formed string
RECURSIVE Escaped(_)
Escaped(s) ==
  IF s = <<>> THEN <<>>
  ELSE IF Unreserved(s[1]) THEN <<s[1]>> \o Escaped(Tail(s))
  ELSE IF IsHigh(s[1])
  THEN Percent(UTF8(65536 + (s[1] - 55296) * 1024 + (s[2] - 56320))) \o Escaped(SubSeq(s, 3, Len(s)))
  ELSE Percent(UTF8(s[1])) \o Escaped(Tail(s))

\* encodeURIComponent: a lone surrogate throws URIError
encodeURIComponent(s) ==
  IF WellFormed(s) THEN [threw |-> FALSE, value |-> Escaped(s)]
  ELSE [threw |-> TRUE, value |-> <<>>]

\* unescape: %XX becomes the character with that code, %uXXXX likewise
RECURSIVE unescape(_)
unescape(s) ==
  IF s = <<>> THEN <<>>
  ELSE IF /\ s[1] = 37 /\ Len(s) >= 6 /\ s[2] = 117
          /\ \A i \in 3..6 : HexValue(s[i]) >= 0
  THEN <<4096 * HexValue(s[3]) + 256 * HexValue(s[4]) + 16 * HexValue(s[5]) + HexValue(s[6])>>
       \o unescape(SubSeq(s, 7, Len(s)))
  ELSE IF s[1] = 37 /\ Len(s) >= 3 /\ HexValue(s[2]) >= 0 /\ HexValue(s[3]) >= 0
  THEN <<16 * HexValue(s[2]) + HexValue(s[3])>> \o unescape(SubSeq(s, 4, Len(s)))
  ELSE <<s[1]>> \o unescape(Tail(s))

\* the character of a base64 digit; '=' pads
Base64Char(v) ==
  IF v < 26 THEN 65 + v
  ELSE IF v < 52 THEN 71 + v
  ELSE IF v < 62 THEN v - 4
  ELSE IF v = 62 THEN 43
  ELSE 47

Pad == 61

RECURSIVE Base64(_)
Base64(bytes) ==
  IF bytes = <<>> THEN <<>>
  ELSE IF Len(bytes) = 1
  THEN <<Base64Char(bytes[1] \div 4), Base64Char((bytes[1] % 4) * 16), Pad, Pad>>
  ELSE IF Len(bytes) = 2
  THEN <<Base64Char(bytes[1] \div 4), Base64Char((bytes[1] % 4) * 16 + bytes[2] \div 16),
         Base64Char((bytes[2] % 16) * 4), Pad>>
  ELSE <<Base64Char(bytes[1] \div 4), Base64Char((bytes[1] % 4) * 16 + bytes[2] \div 16),
         Base64Char((bytes[2] % 16) * 4 + bytes[3] \div 64), Base64Char(bytes[3] % 64)>>
       \o Base64(SubSeq(bytes, 4, Len(bytes)))

\* btoa: a character above 255 throws InvalidCharacterError
btoa(s) ==
  IF \E i \in 1..Len(s) : s[i] > 255 THEN [threw |-> TRUE, value |-> <<>>]
  ELSE [threw |-> FALSE, value |-> Base64(s)]

\* btoa applied to the content itself
base64ContentLatin1(content) == btoa(content)

\* uploadFile: btoa(unescape(encodeURIComponent(params.content)))
base64Content(content) ==
  LET escaped == encodeURIComponent(content)
  IN  IF escaped.threw THEN [threw |-> TRUE, value |-> <<>>]
      ELSE btoa(unescape(escaped.value))

----------------------------------------------------------------------------
(* utils/api.ts: class GitHubApi, and utils/githubApi.ts: object githubApi *)

RepoNames == {"r1", "r2"}

Owner == "octo"

ApiClients == {"api", "githubApi"}

ApiOps == {"fetchRepositories", "fetchRepository", "createRepository", "updateRepository",
           "deleteRepository", "toggleRepositoryVisibility", "getRepositoryContents",
           "getFileContent", "uploadFile", "deleteFile", "getCurrentUser", "validateToken"}

\* the object client has no fetchRepository
ClientOps(client) == IF client = "api" THEN ApiOps ELSE ApiOps \ {"fetchRepository"}

GitHubApiError(message, status, errors) ==
  [name |-> "GitHubApiError", message |-> message, status |-> status, errors |-> errors]

\* the TypeError a rejected fetch() throws, the SyntaxError of response.json()
NativeError(name) == [name |-> name, message |-> <<name>>, status |-> <<>>, errors |-> <<>>]

Throw(error) == [kind |-> "throw", error |-> error, value |-> <<>>]

Return(value) == [kind |-> "return", error |-> NativeError("none"), value |-> <<value>>]

NoTokenMessage == <<"No GitHub token found. Please submit your token first.">>

DuplicateNameMessage(name) ==
  <<"Repository name '", name, "' already exists for your account. Please choose a different name.">>

\* getHeaders without the check of the token
getHeadersUnchecked(storage) ==
  [threw |-> FALSE, error |-> NativeError("none"),
   Authorization |-> <<"Bearer ", getItem(storage, tokenKey)>>]

getHeaders(storage) ==
  LET token == getItem(storage, tokenKey)
  IN  IF ~Truthy(token)
      THEN [threw |-> TRUE, error |-> GitHubApiError(NoTokenMessage, <<>>, <<>>), Authorization |-> <<>>]
      ELSE [threw |-> FALSE, error |-> NativeError("none"), Authorization |-> <<"Bearer ", token>>]

\* errorData?.message || fallback
MessageOr(body, fallback) ==
  IF body.json /\ body.message # <<>> /\ body.message[1] # "" THEN body.message ELSE fallback

handleResponse(response) ==
  IF ~ok(response)
  THEN Throw(GitHubApiError(
         MessageOr(response.body,
                   <<"Request failed with status ", ToString(response.status), ": ", statusText(response.status)>>),
         <<response.status>>,
         IF response.body.json THEN response.body.errors ELSE <<>>))
  ELSE IF response.body.json THEN Return("json") ELSE Throw(NativeError("SyntaxError"))

\* errors.find(err => err.field === 'name' && err.code === 'already_exists')
HasNameError(errors) ==
  \E i \in 1..Len(errors) : errors[i].field = "name" /\ errors[i].code = "already_exists"

\* createRepository remapping the duplicate name whatever the status
createRepositoryAnyStatus(name, response) ==
  LET r == handleResponse(response)
  IN  IF r.kind = "throw" /\ r.error.name = "GitHubApiError"
         /\ r.error.errors # <<>> /\ HasNameError(r.error.errors[1])
      THEN Throw(GitHubApiError(DuplicateNameMessage(name), r.error.status, <<>>))
      ELSE r

\* GitHubApi.createRepository after the fetch: the catch block remaps the duplicate name
createRepositoryResult(name, response) ==
  LET r == handleResponse(response)
  IN  IF r.kind = "throw" /\ r.error.name = "GitHubApiError" /\ r.error.status = <<422>>
         /\ r.error.errors # <<>> /\ HasNameError(r.error.errors[1])
      THEN Throw(GitHubApiError(DuplicateNameMessage(name), r.error.status, <<>>))
      ELSE r

\* GitHubApi.deleteRepository after the fetch: the body is never read
deleteRepositoryResult(response) ==
  IF ~ok(response)
  THEN Throw(GitHubApiError(<<"Failed to delete repository: ", statusText(response.status)>>,
                            <<response.status>>, <<>>))
  ELSE Return("undefined")

\* every request addressed to the origin of the page
RequestToOrigin(op, name, authorization) ==
  [method |-> "GET", base |-> "", path |-> <<"/user">>, Authorization |-> authorization, body |-> <<>>]

\* the request each operation sends
Request(op, name, authorization) ==
  LET repoPath == <<"/repos/", Owner, "/", name>>
      line ==
        CASE op = "fetchRepositories" -> <<"GET", <<"/user/repos?per_page=100&sort=updated">>>>
          [] op = "fetchRepository" -> <<"GET", repoPath>>
          [] op = "createRepository" -> <<"POST", <<"/user/repos">>>>
          [] op = "updateRepository" -> <<"PATCH", repoPath>>
          [] op = "toggleRepositoryVisibility" -> <<"PATCH", repoPath>>
          [] op = "deleteRepository" -> <<"DELETE", repoPath>>
          [] op = "getRepositoryContents" -> <<"GET", repoPath \o <<"/contents/", "">>>>
          [] op = "getFileContent" -> <<"GET", repoPath \o <<"/contents/", "f">>>>
          [] op = "uploadFile" -> <<"PUT", repoPath \o <<"/contents/", "f">>>>
          [] op = "deleteFile" -> <<"DELETE", repoPath \o <<"/contents/", "f">>>>
          [] OTHER -> <<"GET", <<"/user">>>>
  IN  [method |-> line[1], base |-> baseUrl, path |-> line[2], Authorization |-> authorization,
       body |-> <<>>]

\* class GitHubApi: what an operation does with the answer to its request
apiResult(op, name, answer) ==
  IF answer.kind = "reject" THEN Throw(NativeError("TypeError"))
  ELSE CASE op = "createRepository" -> createRepositoryResult(name, answer)
         [] op = "deleteRepository" -> deleteRepositoryResult(answer)
         [] OTHER -> handleResponse(answer)

\* object githubApi: the prefix of the fallback message of each operation
LegacyPrefix(op) ==
  CASE op = "fetchRepositories" -> "Failed to fetch repositories: "
    [] op = "createRepository" -> "Failed to create repository: "
    [] op = "toggleRepositoryVisibility" -> "Failed to update repository visibility: "
    [] op = "updateRepository" -> "Failed to update repository: "
    [] op = "deleteRepository" -> "Failed to delete repository: "
    [] op = "getFileContent" -> "Failed to get file content: "
    [] op = "uploadFile" -> "Failed to upload file: "
    [] op = "deleteFile" -> "Failed to delete file: "
    [] op = "getRepositoryContents" -> "Failed to get repository contents: "
    [] OTHER -> "Failed to get current user: "

\* object githubApi: the operations that read the error body
LegacyReadsBody == {"createRepository", "updateRepository", "uploadFile", "deleteFile"}

\* object githubApi: what an operation does with the answer to its request
legacyResult(op, name, answer) ==
  LET fallback == <<LegacyPrefix(op), statusText(answer.status)>>
  IN  IF answer.kind = "reject" THEN Throw(NativeError("TypeError"))
      ELSE IF ~ok(answer)
      THEN IF op = "createRepository" /\ answer.status = 422 /\ answer.body.json
              /\ answer.body.errors # <<>> /\ HasNameError(answer.body.errors[1])
           THEN Throw(GitHubApiError(DuplicateNameMessage(name), <<answer.status>>, <<>>))
           ELSE Throw(GitHubApiError(
                  IF op \in LegacyReadsBody THEN MessageOr(answer.body, fallback) ELSE fallback,
                  <<answer.status>>, <<>>))
      ELSE IF op = "deleteRepository" THEN Return("undefined")
      ELSE IF answer.body.json THEN Return("json") ELSE Throw(NativeError("SyntaxError"))

\* validateToken answering true to every response
validateTokenIgnoresStatus(token, answer) ==
  [requests |-> <<Request("validateToken", "", <<"Bearer ", token>>)>>,
   outcome |-> Return(answer.kind # "reject")]

\* validateToken of both clients: the candidate token is sent, nothing is read from storage
validateToken(token, answer) ==
  [requests |-> <<Request("validateToken", "", <<"Bearer ", token>>)>>,
   outcome |-> Return(IF answer.kind = "reject" THEN FALSE ELSE ok(answer))]

\* the JSON body of the PUT of uploadFile
UploadBody(encoded) == <<[message |-> "m", content |-> encoded]>>

\* one call of an API client operation: the requests it sends and how it ends
ApiCall(client, op, name, token, content, storage, answer) ==
  IF op = "validateToken" THEN validateToken(token, answer)
  ELSE LET headers == getHeaders(storage)
           encoded == base64Content(content)
           request == Request(op, name, headers.Authorization)
       IN  IF headers.threw
           THEN [requests |-> <<>>, outcome |-> Throw(headers.error)]
           ELSE IF op = "uploadFile" /\ encoded.threw
           THEN [requests |-> <<>>, outcome |-> Throw(NativeError("URIError"))]
           ELSE [requests |-> <<IF op = "uploadFile"
                                THEN [request EXCEPT !.body = UploadBody(encoded.value)]
                                ELSE request>>,
                 outcome |-> IF client = "api" THEN apiResult(op, name, answer)
                             ELSE legacyResult(op, name, answer)]

----------------------------------------------------------------------------
(* App.tsx: routes *)

Paths == {"/", "/token", "/dashboard", "/repo-success", "/elsewhere"}

ProtectedRoutes == {"/dashboard", "/repo-success"}

\* useAuth.isAuthenticated
isAuthenticated(storage) == Truthy(getItem(storage, tokenKey))

\* the routes without ProtectedRoute
RenderUnprotected(path, storage) ==
  IF path \in ProtectedRoutes \cup {"/", "/token"} THEN path ELSE "/"

\* what the router shows for a path: ProtectedRoute, and the "*" route
Render(path, storage) ==
  IF path \in ProtectedRoutes THEN (IF isAuthenticated(storage) THEN path ELSE "/token")
  ELSE IF path \in {"/", "/token"} THEN path
  ELSE "/"

----------------------------------------------------------------------------
(* The query cache: QUERY_KEYS of types/index.ts, the retry policy of App.tsx *)

undefined == "undefined"

repositoriesKey == <<"repositories">>

userKey == <<"user">>

repositoryKey(owner, repo) == <<"repository", owner, repo>>

repositoryContentsKey(owner, repo, path) == <<"repository-contents", owner, repo, path>>

\* the root listing of a repository (no path given) and a sub-directory
ContentPaths == {undefined, "src"}

Keys == {repositoriesKey, userKey}
        \cup {repositoryKey(Owner, r) : r \in RepoNames}
        \cup {repositoryContentsKey(Owner, "r1", path) : path \in ContentPaths}

\* the API operation behind the queryFn of each hook
QueryOp(key) ==
  CASE key[1] = "repositories" -> "fetchRepositories"
    [] key[1] = "repository" -> "fetchRepository"
    [] key[1] = "user" -> "getCurrentUser"
    [] OTHER -> "getRepositoryContents"

retryCeiling == 3

mutationRetry == 1

\* the retry function stopping on 401 only
retryExcept401(failureCount, error) ==
  IF error.status = <<401>> THEN FALSE ELSE failureCount < retryCeiling

\* the retry function allowing one retry more
retryOffByOne(failureCount, error) ==
  IF error.status = <<401>> \/ error.status = <<403>> THEN FALSE
  ELSE failureCount <= retryCeiling

\* queries.retry of the QueryClient, and the same function in useRepositories
retry(failureCount, error) ==
  IF error.status = <<401>> \/ error.status = <<403>> THEN FALSE
  ELSE failureCount < retryCeiling

\* mutations.retry of the QueryClient: a number
retryMutation(failureCount, error) == failureCount < mutationRetry

\* a key with no query in the cache
NoQuery == [exists |-> FALSE, data |-> FALSE, isInvalidated |-> FALSE,
            phase |-> "idle", fetchFailureCount |-> 0, error |-> <<>>]

ErrorInfo(error) == <<[name |-> error.name, status |-> error.status]>>

\* a queryFn call failed: the retry function decides between another attempt
\* after the back-off and the error state
QueryFailed(entry, error) ==
  [entry EXCEPT !.phase = IF retry(entry.fetchFailureCount, error) THEN "backoff" ELSE "idle",
                !.fetchFailureCount = @ + 1,
                !.error = ErrorInfo(error)]

QuerySucceeded(entry) ==
  [entry EXCEPT !.data = TRUE, !.isInvalidated = FALSE, !.phase = "idle",
                !.fetchFailureCount = 0, !.error = <<>>]

\* one call of the queryFn: getHeaders first, then the request goes out
Attempt(entry, storage) ==
  LET headers == getHeaders(storage)
  IN  IF headers.threw THEN QueryFailed(entry, headers.error)
      ELSE [entry EXCEPT !.phase = "request"]

\* a fetch of the query starts
StartFetch(entry, storage) ==
  Attempt([entry EXCEPT !.exists = TRUE, !.fetchFailureCount = 0, !.error = <<>>], storage)

\* a mounted useQuery serves the cached data without a network call
ServedFromCache(entry) ==
  entry.exists /\ entry.phase = "idle" /\ entry.data /\ ~entry.isInvalidated

Fetching(entry) == entry.exists /\ entry.phase # "idle"

\* the answers a read or a mutation of a session can get
SessionAnswers ==
  {a \in Answers : a.kind = "reject"
                   \/ (a.status \in {200, 401, 403, 500} /\ a.body.json
                       /\ a.body.message = <<>> /\ a.body.errors = <<>>)}

AnswerStatus(answer) == IF answer.kind = "reject" THEN <<>> ELSE <<answer.status>>

Event(op, key, status, result) == [op |-> op, key |-> key, status |-> status, result |-> result]

NoKey == <<>>

EmptyCache == [k \in Keys |-> NoQuery]

\* partialMatchKey of the query library: the filter key is a prefix of the query
\* key, compared element by element (undefined matches only undefined)
partialMatchKey(key, filter) ==
  Len(filter) <= Len(key) /\ \A i \in 1..Len(filter) : key[i] = filter[i]

\* queryClient.invalidateQueries({ queryKey: filter }): every matching query is
\* marked invalidated and, being observed, refetched; a fetch in progress is
\* cancelled and started again
invalidateQueries(c, filter, storage) ==
  [k \in Keys |->
     IF c[k].exists /\ partialMatchKey(k, filter)
     THEN StartFetch([c[k] EXCEPT !.isInvalidated = TRUE], storage)
     ELSE c[k]]

\* the requests that clear(), invalidateQueries or refetch() cancel stay open on the network
Cancelled(c, filter) == {k \in Keys : c[k].exists /\ c[k].phase = "request" /\ partialMatchKey(k, filter)}

Min(a, b) == IF a < b THEN a ELSE b

Track(open, cancelled) == Min(open + cancelled, MaxOrphans)

\* the page of a route mounts its hooks: the Dashboard mounts useRepositories
Mount(shown, c, storage) ==
  IF shown = "/dashboard" /\ ~ServedFromCache(c[repositoriesKey]) /\ ~Fetching(c[repositoriesKey])
  THEN [c EXCEPT ![repositoriesKey] = StartFetch(@, storage)]
  ELSE c

----------------------------------------------------------------------------
(* Mutation hooks: useRepositories.ts, useRepositoryFiles.ts *)

MutationKinds == {"create", "update", "delete", "toggle", "upload", "deleteFile"}

MutationOp(kind) ==
  CASE kind = "create" -> "createRepository"
    [] kind = "update" -> "updateRepository"
    [] kind = "delete" -> "deleteRepository"
    [] kind = "toggle" -> "toggleRepositoryVisibility"
    [] kind = "upload" -> "uploadFile"
    [] OTHER -> "deleteFile"

\* every hook invalidating the repository list only
InvalidatedListOnly(kind, owner, repo) == <<repositoriesKey>>

\* the query key filters each hook invalidates in onSuccess, in the order of the code
Invalidated(kind, owner, repo) ==
  CASE kind \in {"create", "delete"} -> <<repositoriesKey, userKey>>
    [] kind \in {"update", "toggle"} -> <<repositoryKey(owner, repo), repositoriesKey>>
    [] OTHER -> <<repositoryContentsKey(owner, repo, undefined)>>

RECURSIVE invalidateAll(_, _, _)
invalidateAll(c, filters, storage) ==
  IF filters = <<>> THEN c
  ELSE invalidateAll(invalidateQueries(c, Head(filters), storage), Tail(filters), storage)

\* onSuccess of the mutation hook
onSuccess(c, kind, owner, repo, storage) == invalidateAll(c, Invalidated(kind, owner, repo), storage)

\* an onError invalidating what onSuccess invalidates
onErrorInvalidates(c, kind, owner, repo, storage) ==
  invalidateAll(c, Invalidated(kind, owner, repo), storage)

\* onError of the mutation hook: console.error only, or no onError at all
onError(c, kind, owner, repo, storage) == c

IdleMutation == [phase |-> "idle", kind |-> "create", repo |-> "r1", failureCount |-> 0, error |-> <<>>,
                 makePrivate |-> FALSE]

\* r1 is public and r2 private on the server; no list has been fetched
InitialVisibility ==
  [remote |-> [r \in RepoNames |-> r = "r2"], listed |-> [r \in RepoNames |-> FALSE]]

\* the data of a list query that succeeded is what the server has
Listed(v, k, entry) ==
  IF k = repositoriesKey /\ entry.data /\ entry.phase = "idle" /\ entry.error = <<>>
  THEN [v EXCEPT !.listed = v.remote] ELSE v

IdleLogin == [pc |-> "idle", token |-> <<>>, result |-> "none", redirect |-> FALSE]

----------------------------------------------------------------------------
(* The components of the pages: Dashboard, ConfirmDeleteModal, CreateRepoModal,
   RepoDetailModal, FileUploader, UserProfileChart, NewRepoSuccessPage *)

\* the state of the components when their page has just been mounted
IdleUi ==
  [showDeleteConfirm |-> FALSE, repoToDelete |-> "", confirmText |-> "", isDeleting |-> FALSE,
   deleteError |-> <<>>, refetching |-> FALSE,
   showCreateModal |-> FALSE, isCreating |-> FALSE, createError |-> <<>>, isRefetching |-> FALSE,
   isModalOpen |-> FALSE, selectedRepo |-> "", isSaving |-> FALSE, saveError |-> <<>>,
   fileDelete |-> FALSE, isUploading |-> FALSE, uploadStatus |-> "idle", errorMessage |-> <<>>,
   reader |-> "idle", showProfile |-> FALSE, chart |-> "idle", chartError |-> FALSE,
   gitTab |-> "idle", output |-> "none", timers |-> <<>>,
   repositories |-> <<>>, searchQuery |-> <<>>, visibilityFilter |-> "all",
   languageFilter |-> "all", currentPage |-> 1, effect |-> FALSE,
   formName |-> <<>>, nameError |-> <<>>, selectedPrivate |-> FALSE]

\* what a user can type into the confirmation field
ConfirmTexts == RepoNames \cup {"", "R1"}

MismatchMessage == <<"The typed repository name does not match. Deletion cancelled.">>

\* the answers a request of a component gets
UiAnswers == {a \in SessionAnswers : a.kind = "reject" \/ a.status \in {200, 403}}

\* isLoading and isRefetching of useRepositories
isLoading(entry) == Fetching(entry) /\ ~entry.data

isRefetching(entry) == Fetching(entry) /\ entry.data

\* a dialog with an overlay covers the page
Overlay(u) == u.showDeleteConfirm \/ u.showCreateModal

\* the Dashboard renders its header and cards: not while the list is loading
DashboardShown == route = "/dashboard" /\ ~isLoading(cache[repositoriesKey])

\* the header and the cards can be clicked
PageFree == DashboardShown /\ ~Overlay(ui) /\ ~ui.isModalOpen

\* the buttons of a repository, on its card or in its detail dialog
RepoButtons(repo) ==
  /\ DashboardShown /\ ~Overlay(ui) /\ cache[repositoriesKey].data
  /\ ui.isModalOpen => ui.selectedRepo = repo

\* the rest of Dashboard.handleToggleVisibility / handleDeleteRepository and of
\* ConfirmDeleteModal.handleConfirm once mutateAsync has settled
MutationSettled(u, kind, succeeded, message) ==
  IF kind = "toggle"
  THEN IF succeeded THEN u ELSE [u EXCEPT !.output = "console"]
  ELSE IF kind = "delete" /\ u.isDeleting
  THEN IF succeeded THEN [u EXCEPT !.refetching = TRUE]
       ELSE [u EXCEPT !.isDeleting = FALSE, !.deleteError = message, !.output = "console"]
  ELSE u

\* handleDeleteRepository awaits refetch(); when the list query settles,
\* handleConfirm goes on: onClose(), setConfirmText(''), setIsDeleting(false)
RefetchSettled(u, k, entry) ==
  IF k = repositoriesKey /\ u.refetching /\ entry.phase = "idle"
  THEN [u EXCEPT !.refetching = FALSE, !.showDeleteConfirm = FALSE, !.repoToDelete = "",
                 !.confirmText = "", !.isDeleting = FALSE]
  ELSE u

\* Dashboard.handleRefresh with the isRefetching of the render it was created in
handleRefresh(c, refetchingThen, storage) ==
  IF refetchingThen THEN c
  ELSE [c EXCEPT ![repositoriesKey] = StartFetch(@, storage)]

\* the onload callback of handleFileUpload threw: nothing awaits its promise
onloadFailurePropagated(u, message) ==
  [u EXCEPT !.reader = "idle", !.uploadStatus = "error", !.errorMessage = message]

onloadFailure(u, message) == [u EXCEPT !.reader = "idle", !.output = "unhandled"]

----------------------------------------------------------------------------
(* Dashboard: the filters and the pages of the repository list.  A repository
   is its id, name, description (<<>> when null), private flag and language
   (<<>> when null); a text is the sequence of its characters. *)

reposPerPage == 12

BaseRepos ==
  << [id |-> 1, name |-> <<"A", "b">>, description |-> <<>>, private |-> FALSE, language |-> <<"Go">>],
     [id |-> 2, name |-> <<"b">>, description |-> << <<"a", "B">> >>, private |-> TRUE, language |-> <<>>],
     [id |-> 3, name |-> <<"c">>, description |-> << <<>> >>, private |-> FALSE, language |-> <<"TS">>],
     [id |-> 4, name |-> <<"a", "c">>, description |-> << <<"c">> >>, private |-> TRUE, language |-> <<"Go">>] >>

\* the lists the server can answer with: every short list of different
\* repositories, and lists that fill a number of pages, exactly or with one more
RepositoryLists ==
  {list \in UNION {[1..n -> {BaseRepos[i] : i \in 1..Len(BaseRepos)}] : n \in 0..MaxShort} :
     \A i, j \in 1..Len(list) : i # j => list[i] # list[j]}
  \cup {[i \in 1..n |-> [BaseRepos[((i - 1) % Len(BaseRepos)) + 1] EXCEPT !.id = i]] :
          n \in UNION {{reposPerPage * k, reposPerPage * k + 1} : k \in 1..(MaxPages - 1)}}

\* what a user can type into the search field
SearchTexts == {<<>>, <<"a">>, <<"B">>, <<"a", "b">>}

\* a search comparing the letters as they are
toLowerCaseIdentity(s) == s

\* String.prototype.toLowerCase
toLowerCase(s) ==
  [i \in 1..Len(s) |-> CASE s[i] = "A" -> "a" [] s[i] = "B" -> "b" [] OTHER -> s[i]]

\* String.prototype.includes
includes(s, q) == \E i \in 0..(Len(s) - Len(q)) : SubSeq(s, i + 1, i + Len(q)) = q

\* the options of the language filter
uniqueLanguages(repositories) ==
  {repositories[i].language[1] : i \in {j \in 1..Len(repositories) : repositories[j].language # <<>>}}

filteredRepos(repositories, searchQuery, visibilityFilter, languageFilter) ==
  LET bySearch ==
        IF searchQuery # <<>>
        THEN SelectSeq(repositories,
               LAMBDA repo : \/ includes(toLowerCase(repo.name), toLowerCase(searchQuery))
                             \/ IF repo.description # <<>>
                                THEN includes(toLowerCase(repo.description[1]), toLowerCase(searchQuery))
                                ELSE FALSE)
        ELSE repositories
      byVisibility ==
        IF visibilityFilter # "all"
        THEN SelectSeq(bySearch,
               LAMBDA repo : IF visibilityFilter = "private" THEN repo.private ELSE ~repo.private)
        ELSE bySearch
  IN  IF languageFilter # "all"
      THEN SelectSeq(byVisibility, LAMBDA repo : repo.language = <<languageFilter>>)
      ELSE byVisibility

\* the filteredRepos of the render
Filtered(u) == filteredRepos(u.repositories, u.searchQuery, u.visibilityFilter, u.languageFilter)

\* Math.ceil(filteredRepos.length / reposPerPage)
totalPages(length) == (length + reposPerPage - 1) \div reposPerPage

\* filteredRepos.slice(start, start + reposPerPage)
paginatedRepos(filtered, currentPage) ==
  LET start == (currentPage - 1) * reposPerPage
  IN  SubSeq(filtered, start + 1, Min(start + reposPerPage, Len(filtered)))

\* an effect that never resets the page
pageKept(currentPage, pages) == currentPage

\* the effect on [filteredRepos, totalPages]
pageReset(currentPage, pages) == IF currentPage > pages THEN 1 ELSE currentPage

----------------------------------------------------------------------------
(* Repository names: validateRepoName of CreateRepoModal and
   validateRepositoryName of the formatters.  '' is <<>>, null is Null. *)

NameLimit == 100

\* what a user can type into the name field.  A few characters come first: a
\* letter, a capital, a digit, the three signs of the pattern, a blank and an
\* accented letter (written e'), which the pattern does not have.  Nothing, or
\* letters up to the limit and around it, follow them.
TypedNames ==
  {typed \o [i \in 1..n |-> "a"] :
     typed \in UNION {[1..k -> {"a", "Z", "7", ".", "_", "-", " ", "e'"}] : k \in 0..MaxTyped},
     n \in {0, NameLimit - 2, NameLimit - 1, NameLimit}}

\* /^[a-zA-Z0-9._-]+$/.test(name)
validNameRegex(name) ==
  name # <<>> /\ \A i \in 1..Len(name) : name[i] \in {"a", "Z", "7", ".", "_", "-"}

startsWith(name, c) == name # <<>> /\ name[1] = c

\* validateRepoName without the check of the length
validateRepoNameAnyLength(name) ==
  IF trim(name) = <<>> THEN <<"Repository name is required">>
  ELSE IF ~validNameRegex(name)
  THEN <<"Invalid repository name. Please use alphanumeric characters, hyphens, dots, and underscores only.">>
  ELSE IF startsWith(name, ".") \/ startsWith(name, "-")
  THEN <<"Repository name cannot start with a dot or hyphen">>
  ELSE <<>>

\* CreateRepoModal.validateRepoName
validateRepoName(name) ==
  IF trim(name) = <<>> THEN <<"Repository name is required">>
  ELSE IF ~validNameRegex(name)
  THEN <<"Invalid repository name. Please use alphanumeric characters, hyphens, dots, and underscores only.">>
  ELSE IF Len(name) > NameLimit THEN <<"Repository name must be 100 characters or less">>
  ELSE IF startsWith(name, ".") \/ startsWith(name, "-")
  THEN <<"Repository name cannot start with a dot or hyphen">>
  ELSE <<>>

\* validateRepositoryName of utils/formatters
validateRepositoryName(name) ==
  IF trim(name) = <<>> THEN <<"Repository name is required">>
  ELSE IF ~validNameRegex(name)
  THEN <<"Invalid repository name. Please use alphanumeric characters, hyphens, dots, and underscores only.">>
  ELSE IF Len(name) > NameLimit THEN <<"Repository name must be 100 characters or less">>
  ELSE IF startsWith(name, ".") \/ startsWith(name, "-")
  THEN <<"Repository name cannot start with a dot or hyphen">>
  ELSE Null

----------------------------------------------------------------------------
(* The session *)

SessionInit ==
  /\ localStorage \in Storages
  /\ \E path \in Paths :
       /\ route = Render(path, localStorage)
       /\ cache = Mount(route, EmptyCache, localStorage)
  /\ orphaned = 0
  /\ login = IdleLogin
  /\ mutation = IdleMutation
  /\ last = Event("init", NoKey, <<>>, FALSE)
  /\ ui = IdleUi
  /\ visibility = InitialVisibility

ApiIdle ==
  /\ apiIn = [client |-> "api", op |-> "validateToken", name |-> "r1", token |-> <<>>,
              content |-> <<>>,
              answer |-> CHOOSE a \in Answers : a.kind = "reject"]
  /\ apiOut = [called |-> FALSE, requests |-> <<>>, outcome |-> Return("none")]

\* a page load (address bar, reload): memory is lost, storage is kept
PageLoad(path) ==
  /\ route' = Render(path, localStorage)
  /\ cache' = Mount(route', EmptyCache, localStorage)
  /\ orphaned' = 0
  /\ login' = IdleLogin
  /\ mutation' = IdleMutation
  /\ last' = Event("load", <<path>>, <<>>, FALSE)
  /\ ui' = IdleUi
  /\ visibility' = [visibility EXCEPT !.listed = InitialVisibility.listed]
  /\ UNCHANGED <<localStorage, apiVars>>

\* LandingPage: the Get Started button
GetStarted ==
  /\ route = "/"
  /\ route' = Render(IF Truthy(getItem(localStorage, tokenKey)) THEN "/dashboard" ELSE "/token", localStorage)
  /\ cache' = Mount(route', cache, localStorage)
  /\ last' = Event("navigate", NoKey, <<>>, FALSE)
  /\ UNCHANGED <<localStorage, orphaned, login, mutation, apiVars, uiVars, visibility>>

\* TokenSubmission.handleSubmit up to the await of login(): a blank text is refused
SubmitToken(text) ==
  /\ route = "/token"
  /\ login.pc = "idle"
  /\ IF trim(text) = <<>>
     THEN /\ login' = [IdleLogin EXCEPT !.result = "blank"]
          /\ last' = Event("blank", NoKey, <<>>, FALSE)
     ELSE /\ login' = [pc |-> "validating", token |-> text, result |-> "none", redirect |-> FALSE]
          /\ last' = Event("submit", NoKey, <<>>, FALSE)
  /\ UNCHANGED <<localStorage, route, cache, orphaned, mutation, apiVars, uiVars, visibility>>

\* useAuth.login after the await of validateToken, and the rest of handleSubmit
LoginResponse(answer) ==
  /\ login.pc = "validating"
  /\ LET isValid == validateToken(login.token, answer).outcome.value[1]
     IN  /\ localStorage' = IF isValid THEN setItem(localStorage, tokenKey, login.token) ELSE localStorage
         /\ login' = [pc |-> "idle", token |-> <<>>, result |-> IF isValid THEN "true" ELSE "false",
                      redirect |-> isValid]
         /\ last' = Event("login", login.token, AnswerStatus(answer), isValid)
  /\ UNCHANGED <<route, cache, orphaned, mutation, apiVars, uiVars, visibility>>

\* TokenSubmission: the timer set after a successful login navigates to the dashboard
LoginRedirect ==
  /\ login.redirect
  /\ login' = [login EXCEPT !.redirect = FALSE]
  /\ route' = Render("/dashboard", localStorage)
  /\ cache' = Mount(route', cache, localStorage)
  /\ last' = Event("navigate", NoKey, <<>>, FALSE)
  /\ UNCHANGED <<localStorage, orphaned, mutation, apiVars, uiVars, visibility>>

\* logout that leaves the token in storage
logoutKeepsToken ==
  /\ route \in ProtectedRoutes
  /\ ~(mutation.phase # "idle" /\ mutation.kind = "delete")
  /\ cache' = EmptyCache
  /\ orphaned' = Track(orphaned, Cardinality(Cancelled(cache, <<>>)))
  /\ route' = "/"
  /\ last' = Event("logout", NoKey, <<>>, FALSE)
  /\ ui' = IdleUi
  /\ visibility' = [visibility EXCEPT !.listed = InitialVisibility.listed]
  /\ UNCHANGED <<localStorage, login, mutation, apiVars>>

\* logout that does not clear the query cache
logoutKeepsCache ==
  /\ route \in ProtectedRoutes
  /\ ~(mutation.phase # "idle" /\ mutation.kind = "delete")
  /\ localStorage' = removeItem(localStorage, tokenKey)
  /\ route' = "/"
  /\ last' = Event("logout", NoKey, <<>>, FALSE)
  /\ ui' = IdleUi
  /\ UNCHANGED <<cache, orphaned, login, mutation, apiVars, visibility>>

\* useAuth.logout, from the button of a protected page; the delete confirmation
\* dialog covers the page while its request is open
logout ==
  /\ route \in ProtectedRoutes
  /\ ~(mutation.phase # "idle" /\ mutation.kind = "delete")
  /\ localStorage' = removeItem(localStorage, tokenKey)
  /\ cache' = EmptyCache
  /\ orphaned' = Track(orphaned, Cardinality(Cancelled(cache, <<>>)))
  /\ route' = Render("/", localStorage')
  /\ last' = Event("logout", NoKey, <<>>, FALSE)
  /\ ui' = IdleUi
  /\ visibility' = [visibility EXCEPT !.listed = InitialVisibility.listed]
  /\ UNCHANGED <<login, mutation, apiVars>>

\* a component of a protected page mounts the useQuery hook of a key: fresh data
\* is served from the cache, a fetch in progress is shared, anything else fetches
Read(k) ==
  /\ route \in ProtectedRoutes
  /\ cache[k].exists \/ Cardinality({q \in Keys : cache[q].exists}) < MaxQueries
  /\ IF ServedFromCache(cache[k]) \/ Fetching(cache[k])
     THEN /\ cache' = cache
          /\ last' = Event("read", k, <<>>, FALSE)
     ELSE /\ cache' = [cache EXCEPT ![k] = StartFetch(@, localStorage)]
          /\ last' = Event("read", k, <<>>, TRUE)
  /\ UNCHANGED <<localStorage, route, orphaned, login, mutation, apiVars, uiVars, visibility>>

\* the request of a fetch is answered: the queryFn returns or throws
QueryResponse(k, answer) ==
  /\ cache[k].exists
  /\ cache[k].phase = "request"
  /\ LET r == apiResult(QueryOp(k), "r1", answer)
     IN  cache' = [cache EXCEPT ![k] = IF r.kind = "return" THEN QuerySucceeded(@)
                                       ELSE QueryFailed(@, r.error)]
  /\ last' = Event("response", k, AnswerStatus(answer), cache'[k].phase = "backoff")
  /\ ui' = RefetchSettled(ui, k, cache'[k])
  /\ visibility' = Listed(visibility, k, cache'[k])
  /\ UNCHANGED <<localStorage, route, orphaned, login, mutation, apiVars>>

\* the back-off of a failed attempt is over: the queryFn is called again
QueryRetry(k) ==
  /\ cache[k].exists
  /\ cache[k].phase = "backoff"
  /\ cache' = [cache EXCEPT ![k] = Attempt(@, localStorage)]
  /\ last' = Event("retry", k, <<>>, FALSE)
  /\ ui' = RefetchSettled(ui, k, cache'[k])
  /\ UNCHANGED <<localStorage, route, orphaned, login, mutation, apiVars, visibility>>

\* the answer to a request whose fetch was cancelled arrives: nobody reads it
OrphanResponse ==
  /\ orphaned > 0
  /\ orphaned' = orphaned - 1
  /\ last' = Event("orphan", NoKey, <<>>, FALSE)
  /\ UNCHANGED <<localStorage, route, cache, login, mutation, apiVars, uiVars, visibility>>

\* one call of the mutationFn: getHeaders first, then the request goes out
MutationAttempt(m, storage) ==
  LET headers == getHeaders(storage)
  IN  IF headers.threw
      THEN IF retryMutation(m.failureCount, headers.error)
           THEN [m EXCEPT !.phase = "backoff", !.failureCount = @ + 1, !.error = ErrorInfo(headers.error)]
           ELSE IdleMutation
      ELSE [m EXCEPT !.phase = "request"]

\* mutate()/mutateAsync() of a mutation hook; toggle and delete are called by the Dashboard
Mutate(kind, repo) ==
  /\ route \in ProtectedRoutes
  /\ kind \in {"toggle", "delete"} => route = "/dashboard"
  /\ mutation.phase = "idle"
  /\ mutation' = MutationAttempt([phase |-> "idle", kind |-> kind, repo |-> repo,
                                  failureCount |-> 0, error |-> <<>>,
                                  makePrivate |-> kind = "toggle" /\ ~visibility.listed[repo]],
                                 localStorage)
  /\ last' = Event("mutate", <<kind, repo>>, <<>>, FALSE)
  /\ UNCHANGED <<localStorage, route, cache, orphaned, login, apiVars, uiVars, visibility>>

\* the request of a mutation is answered.  Success runs onSuccess; after a delete
\* Dashboard.handleDeleteRepository goes on to refetch() the repository list.
\* Failure is retried by the mutations.retry setting, then onError runs.
MutationResponse(answer) ==
  /\ mutation.phase = "request"
  /\ LET r == apiResult(MutationOp(mutation.kind), mutation.repo, answer)
         invalidated == onSuccess(cache, mutation.kind, Owner, mutation.repo, localStorage)
         filters == Invalidated(mutation.kind, Owner, mutation.repo)
     IN  IF r.kind = "return"
         THEN /\ mutation' = IdleMutation
              /\ cache' = IF mutation.kind = "delete"
                          THEN [invalidated EXCEPT ![repositoriesKey] = StartFetch(@, localStorage)]
                          ELSE invalidated
              /\ orphaned' = Track(orphaned,
                     Cardinality(UNION {Cancelled(cache, filters[i]) : i \in 1..Len(filters)})
                     + (IF mutation.kind = "delete" /\ invalidated[repositoriesKey].phase = "request"
                        THEN 1 ELSE 0))
              /\ last' = Event("mutation", <<mutation.kind, mutation.repo>>, AnswerStatus(answer), TRUE)
              /\ ui' = MutationSettled(ui, mutation.kind, TRUE, <<>>)
         ELSE IF retryMutation(mutation.failureCount, r.error)
         THEN /\ mutation' = [mutation EXCEPT !.phase = "backoff", !.failureCount = @ + 1,
                                              !.error = ErrorInfo(r.error)]
              /\ UNCHANGED <<cache, orphaned, ui>>
              /\ last' = Event("mutation_failed", <<mutation.kind, mutation.repo>>, AnswerStatus(answer), TRUE)
         ELSE /\ mutation' = IdleMutation
              /\ cache' = onError(cache, mutation.kind, Owner, mutation.repo, localStorage)
              /\ UNCHANGED orphaned
              /\ last' = Event("mutation_failed", <<mutation.kind, mutation.repo>>, AnswerStatus(answer), FALSE)
              /\ ui' = MutationSettled(ui, mutation.kind, FALSE, r.error.message)
  /\ UNCHANGED <<localStorage, route, login, apiVars, visibility>>

\* the back-off of a failed mutation attempt is over: the mutationFn is called again
MutationRetry ==
  /\ mutation.phase = "backoff"
  /\ mutation' = MutationAttempt(mutation, localStorage)
  /\ last' = Event("mutation_retry", <<mutation.kind, mutation.repo>>, <<>>, FALSE)
  /\ ui' = IF mutation'.phase = "idle" THEN MutationSettled(ui, mutation.kind, FALSE, NoTokenMessage) ELSE ui
  /\ UNCHANGED <<localStorage, route, cache, orphaned, login, apiVars, visibility>>

\* the answers a read gets in the specifications that are about something else
\* than the retries: it succeeds or fails for good
PlainAnswers == {a \in SessionAnswers : a.kind = "response" /\ a.status \in {200, 401}}

\* a session at the dashboard of a logged-in user
LoggedIn ==
  /\ localStorage = [k \in {tokenKey} |-> <<"a">>]
  /\ route = "/dashboard"
  /\ cache = Mount(route, EmptyCache, localStorage)
  /\ orphaned = 0
  /\ login = IdleLogin
  /\ mutation = IdleMutation
  /\ last = Event("init", NoKey, <<>>, FALSE)
  /\ ui = IdleUi
  /\ visibility = InitialVisibility

(* Token store, routes, reads and their retries *)

Init == SessionInit /\ ApiIdle

Next ==
  \/ \E path \in Paths : PageLoad(path)
  \/ GetStarted
  \/ \E text \in TokenTexts : SubmitToken(text)
  \/ \E answer \in SessionAnswers : LoginResponse(answer)
  \/ LoginRedirect
  \/ logout
  \/ \E k \in Keys : Read(k)
  \/ \E k \in Keys, answer \in SessionAnswers : QueryResponse(k, answer)
  \/ \E k \in Keys : QueryRetry(k)
  \/ OrphanResponse

Spec == Init /\ [][Next]_vars

(* Mutations and the cache *)

InitCache == LoggedIn /\ ApiIdle

NextCache ==
  \/ \E k \in Keys : Read(k)
  \/ \E k \in Keys, answer \in PlainAnswers : QueryResponse(k, answer)
  \/ OrphanResponse
  \/ \E kind \in MutationKinds, repo \in RepoNames : Mutate(kind, repo)
  \/ \E answer \in SessionAnswers : MutationResponse(answer)
  \/ MutationRetry

SpecCache == InitCache /\ [][NextCache]_vars

(* The pages of a logged-in user *)

\* Dashboard.handleDeleteClick, from a card or from the detail dialog
handleDeleteClick(repo) ==
  /\ RepoButtons(repo)
  /\ ui' = [ui EXCEPT !.repoToDelete = repo, !.showDeleteConfirm = TRUE, !.output = "none"]
  /\ last' = Event("ui", <<"deleteClick", repo>>, <<>>, FALSE)
  /\ UNCHANGED <<localStorage, route, cache, orphaned, login, mutation, apiVars, visibility>>

\* ConfirmDeleteModal: the onChange of the text field
ConfirmTextChange(text) ==
  /\ DashboardShown /\ ui.showDeleteConfirm /\ ~ui.isDeleting
  /\ ui' = [ui EXCEPT !.confirmText = text, !.deleteError = <<>>, !.output = "none"]
  /\ last' = Event("ui", <<"confirmText", ui.repoToDelete>>, <<>>, FALSE)
  /\ UNCHANGED <<localStorage, route, cache, orphaned, login, mutation, apiVars, visibility>>

\* handleConfirm calling onConfirm whatever the text
handleConfirmUnchecked ==
  /\ DashboardShown /\ ui.showDeleteConfirm /\ ~ui.isDeleting
  /\ mutation.phase = "idle"
  /\ ui' = [ui EXCEPT !.isDeleting = TRUE, !.deleteError = <<>>, !.output = "none"]
  /\ mutation' = MutationAttempt([phase |-> "idle", kind |-> "delete", repo |-> ui.repoToDelete,
                                  failureCount |-> 0, error |-> <<>>, makePrivate |-> FALSE],
                                 localStorage)
  /\ last' = Event("confirm", <<"delete", ui.repoToDelete>>, <<>>, TRUE)
  /\ UNCHANGED <<localStorage, route, cache, orphaned, login, apiVars, visibility>>

\* ConfirmDeleteModal.handleConfirm; onConfirm is Dashboard.handleDeleteRepository,
\* which calls mutateAsync of useDeleteRepository.  The button is disabled for
\* a text that is not the name; the handler compares the text again.
handleConfirm ==
  /\ DashboardShown /\ ui.showDeleteConfirm /\ ~ui.isDeleting
  /\ mutation.phase = "idle"
  /\ IF ui.confirmText # ui.repoToDelete
     THEN /\ ui' = [ui EXCEPT !.deleteError = MismatchMessage, !.output = "none"]
          /\ UNCHANGED mutation
          /\ last' = Event("confirm", <<"delete", ui.repoToDelete>>, <<>>, FALSE)
     ELSE /\ ui' = [ui EXCEPT !.isDeleting = TRUE, !.deleteError = <<>>, !.output = "none"]
          /\ mutation' = MutationAttempt([phase |-> "idle", kind |-> "delete", repo |-> ui.repoToDelete,
                                          failureCount |-> 0, error |-> <<>>, makePrivate |-> FALSE],
                                         localStorage)
          /\ last' = Event("confirm", <<"delete", ui.repoToDelete>>, <<>>, TRUE)
  /\ UNCHANGED <<localStorage, route, cache, orphaned, login, apiVars, visibility>>

\* handleClose closing the dialog whatever isDeleting is
handleCloseWhileDeleting ==
  /\ DashboardShown /\ ui.showDeleteConfirm
  /\ ui' = [ui EXCEPT !.confirmText = "", !.deleteError = <<>>, !.showDeleteConfirm = FALSE,
                      !.repoToDelete = "", !.output = "none"]
  /\ last' = Event("close", <<"delete", ui.repoToDelete>>, <<>>, TRUE)
  /\ UNCHANGED <<localStorage, route, cache, orphaned, login, mutation, apiVars, visibility>>

\* ConfirmDeleteModal.handleClose, from the backdrop, the X or Cancel, and
\* Dashboard.handleCloseDeleteConfirm
handleClose ==
  /\ DashboardShown /\ ui.showDeleteConfirm
  /\ IF ~ui.isDeleting
     THEN ui' = [ui EXCEPT !.confirmText = "", !.deleteError = <<>>, !.showDeleteConfirm = FALSE,
                           !.repoToDelete = "", !.output = "none"]
     ELSE ui' = [ui EXCEPT !.output = "none"]
  /\ last' = Event("close", <<"delete", ui.repoToDelete>>, <<>>, ~ui.isDeleting)
  /\ UNCHANGED <<localStorage, route, cache, orphaned, login, mutation, apiVars, visibility>>

\* Dashboard.handleToggleVisibility(repo): the repo is the repository of the
\* card, an element of the list, or the repository of the detail dialog, the
\* selectedRepo of the Dashboard
handleToggleVisibility(repo) ==
  /\ RepoButtons(repo)
  /\ mutation.phase = "idle"
  /\ mutation' = MutationAttempt([phase |-> "idle", kind |-> "toggle", repo |-> repo,
                                  failureCount |-> 0, error |-> <<>>,
                                  makePrivate |-> IF ui.isModalOpen THEN ~ui.selectedPrivate
                                                  ELSE ~visibility.listed[repo]],
                                 localStorage)
  /\ ui' = [ui EXCEPT !.output = "none"]
  /\ last' = Event("mutate", <<"toggle", repo>>, <<>>, FALSE)
  /\ UNCHANGED <<localStorage, route, cache, orphaned, login, apiVars, visibility>>

\* clearTimeout(refreshTimeoutRef.current): the ref holds the timer set last
clearTimeout(timers) == IF timers = <<>> THEN timers ELSE SubSeq(timers, 1, Len(timers) - 1)

\* Dashboard.handleRefreshClick, from the header button (disabled while
\* refetching) or the Retry button of the error banner: the timer set calls the
\* handleRefresh of this render, which holds the isRefetching of this render
handleRefreshClick ==
  /\ PageFree
  /\ ~isRefetching(cache[repositoriesKey]) \/ cache[repositoriesKey].error # <<>>
  /\ Len(clearTimeout(ui.timers)) < MaxTimers
  /\ ui' = [ui EXCEPT !.timers = Append(clearTimeout(@), isRefetching(cache[repositoriesKey])),
                      !.output = "none"]
  /\ last' = Event("ui", <<"refresh", "">>, <<>>, ui.timers # <<>>)
  /\ UNCHANGED <<localStorage, route, cache, orphaned, login, mutation, apiVars, visibility>>

\* 100 ms after the click its timer calls handleRefresh
RefreshTimer ==
  /\ route = "/dashboard"
  /\ ui.timers # <<>>
  /\ cache' = handleRefresh(cache, Head(ui.timers), localStorage)
  /\ orphaned' = Track(orphaned,
         IF ~Head(ui.timers) /\ cache[repositoriesKey].phase = "request" THEN 1 ELSE 0)
  /\ ui' = [ui EXCEPT !.timers = Tail(@)]
  /\ last' = Event("refresh", repositoriesKey, <<>>, ~Head(ui.timers))
  /\ UNCHANGED <<localStorage, route, login, mutation, apiVars, visibility>>

\* the New Repository button of the Dashboard
OpenCreateModal ==
  /\ PageFree
  /\ ui' = [ui EXCEPT !.showCreateModal = TRUE, !.output = "none"]
  /\ last' = Event("ui", <<"openCreate", "">>, <<>>, FALSE)
  /\ UNCHANGED <<localStorage, route, cache, orphaned, login, mutation, apiVars, visibility>>

\* CreateRepoModal.handleNameChange: the onChange of the name field
handleNameChange(name) ==
  /\ DashboardShown /\ ui.showCreateModal /\ ~ui.isCreating
  /\ ui' = [ui EXCEPT !.formName = name, !.nameError = validateRepoName(name),
                      !.createError = <<>>, !.output = "none"]
  /\ last' = Event("ui", <<"name", "">>, <<>>, FALSE)
  /\ UNCHANGED <<localStorage, route, cache, orphaned, login, mutation, apiVars, visibility>>

\* CreateRepoModal.handleSubmit up to the await of githubApi.createRepository;
\* its onSuccess is the handleCreateSuccess of this render
CreateSubmit ==
  /\ DashboardShown /\ ui.showCreateModal /\ ~ui.isCreating
  /\ LET nameValidationError == validateRepoName(ui.formName)
         headers == getHeaders(localStorage)
     IN  IF nameValidationError # <<>>
         THEN /\ ui' = [ui EXCEPT !.nameError = nameValidationError, !.output = "none"]
              /\ last' = Event("invalid", <<"create", "r1">>, <<>>, FALSE)
         ELSE IF headers.threw
         THEN /\ ui' = [ui EXCEPT !.createError = headers.error.message, !.nameError = <<>>,
                                  !.output = "none"]
              /\ last' = Event("call_failed", <<"create", "r1">>, <<>>, FALSE)
         ELSE /\ ui' = [ui EXCEPT !.isCreating = TRUE, !.createError = <<>>, !.nameError = <<>>,
                                  !.isRefetching = isRefetching(cache[repositoriesKey]),
                                  !.output = "none"]
              /\ last' = Event("ui", <<"create", "r1">>, <<>>, FALSE)
  /\ UNCHANGED <<localStorage, route, cache, orphaned, login, mutation, apiVars, visibility>>

\* the POST of createRepository is answered: the rest of handleSubmit, and on
\* success Dashboard.handleCreateSuccess: close, handleRefresh(), navigate
CreateResponse(answer) ==
  /\ ui.isCreating
  /\ LET r == legacyResult("createRepository", "r1", answer)
     IN  IF r.kind = "return"
         THEN /\ cache' = handleRefresh(cache, ui.isRefetching, localStorage)
              /\ orphaned' = Track(orphaned,
                     IF ~ui.isRefetching /\ cache[repositoriesKey].phase = "request" THEN 1 ELSE 0)
              /\ route' = Render("/repo-success", localStorage)
              /\ ui' = IdleUi
              /\ last' = Event("created", <<"create", "r1">>, AnswerStatus(answer), ~ui.isRefetching)
         ELSE /\ ui' = [ui EXCEPT !.isCreating = FALSE, !.createError = r.error.message]
              /\ last' = Event("call_failed", <<"create", "r1">>, AnswerStatus(answer), FALSE)
              /\ UNCHANGED <<cache, orphaned, route>>
  /\ UNCHANGED <<localStorage, login, mutation, apiVars, visibility>>

\* NewRepoSuccessPage: the buttons that navigate to the dashboard
BackToDashboard ==
  /\ route = "/repo-success"
  /\ ui.reader = "idle"
  /\ route' = Render("/dashboard", localStorage)
  /\ cache' = Mount(route', cache, localStorage)
  /\ ui' = IdleUi
  /\ last' = Event("navigate", NoKey, <<>>, FALSE)
  /\ UNCHANGED <<localStorage, orphaned, login, mutation, apiVars, visibility>>

\* Dashboard.handleRepoClick: the detail dialog opens
handleRepoClick(repo) ==
  /\ PageFree /\ cache[repositoriesKey].data
  /\ ui' = [ui EXCEPT !.selectedRepo = repo, !.selectedPrivate = visibility.listed[repo],
                      !.isModalOpen = TRUE, !.output = "none"]
  /\ last' = Event("ui", <<"open", repo>>, <<>>, FALSE)
  /\ UNCHANGED <<localStorage, route, cache, orphaned, login, mutation, apiVars, visibility>>

\* Dashboard.handleCloseModal, once the requests of the dialog are answered
handleCloseModal ==
  /\ DashboardShown /\ ui.isModalOpen /\ ~Overlay(ui)
  /\ ~ui.isSaving /\ ~ui.fileDelete /\ ui.reader = "idle" /\ ui.gitTab = "idle"
  /\ ui' = [ui EXCEPT !.isModalOpen = FALSE, !.selectedRepo = "", !.selectedPrivate = FALSE,
                      !.output = "none"]
  /\ last' = Event("ui", <<"closeModal", ui.selectedRepo>>, <<>>, FALSE)
  /\ UNCHANGED <<localStorage, route, cache, orphaned, login, mutation, apiVars, visibility>>

\* the detail dialog of the Dashboard can be used
ModalFree == DashboardShown /\ ui.isModalOpen /\ ~Overlay(ui)

\* RepoDetailModal.handleSaveChanges with an edited name, up to the await of
\* githubApi.updateRepository
handleSaveChanges ==
  /\ ModalFree /\ ~ui.isSaving
  /\ LET headers == getHeaders(localStorage)
     IN  IF headers.threw
         THEN /\ ui' = [ui EXCEPT !.saveError = headers.error.message, !.output = "none"]
              /\ last' = Event("call_failed", <<"update", ui.selectedRepo>>, <<>>, FALSE)
         ELSE /\ ui' = [ui EXCEPT !.isSaving = TRUE, !.saveError = <<>>, !.output = "none"]
              /\ last' = Event("ui", <<"update", ui.selectedRepo>>, <<>>, FALSE)
  /\ UNCHANGED <<localStorage, route, cache, orphaned, login, mutation, apiVars, visibility>>

\* the PATCH of updateRepository is answered: the rest of handleSaveChanges
SaveResponse(answer) ==
  /\ ui.isSaving
  /\ LET r == legacyResult("updateRepository", ui.selectedRepo, answer)
     IN  IF r.kind = "return"
         THEN /\ ui' = [ui EXCEPT !.isSaving = FALSE]
              /\ last' = Event("call", <<"update", ui.selectedRepo>>, AnswerStatus(answer), TRUE)
         ELSE /\ ui' = [ui EXCEPT !.isSaving = FALSE, !.saveError = r.error.message]
              /\ last' = Event("call_failed", <<"update", ui.selectedRepo>>, AnswerStatus(answer), FALSE)
  /\ UNCHANGED <<localStorage, route, cache, orphaned, login, mutation, apiVars, visibility>>

\* RepoDetailModal.handleFileDelete, confirmed, up to the await of githubApi.deleteFile
handleFileDelete ==
  /\ ModalFree /\ ~ui.fileDelete
  /\ LET headers == getHeaders(localStorage)
     IN  IF headers.threw
         THEN /\ ui' = [ui EXCEPT !.output = "alert"]
              /\ last' = Event("call_failed", <<"deleteFile", ui.selectedRepo>>, <<>>, FALSE)
         ELSE /\ ui' = [ui EXCEPT !.fileDelete = TRUE, !.output = "none"]
              /\ last' = Event("ui", <<"deleteFile", ui.selectedRepo>>, <<>>, FALSE)
  /\ UNCHANGED <<localStorage, route, cache, orphaned, login, mutation, apiVars, visibility>>

\* the DELETE of deleteFile is answered: a failure is shown by alert()
FileDeleteResponse(answer) ==
  /\ ui.fileDelete
  /\ LET r == legacyResult("deleteFile", ui.selectedRepo, answer)
     IN  IF r.kind = "return"
         THEN /\ ui' = [ui EXCEPT !.fileDelete = FALSE]
              /\ last' = Event("call", <<"deleteFile", ui.selectedRepo>>, AnswerStatus(answer), TRUE)
         ELSE /\ ui' = [ui EXCEPT !.fileDelete = FALSE, !.output = "alert"]
              /\ last' = Event("call_failed", <<"deleteFile", ui.selectedRepo>>, AnswerStatus(answer), FALSE)
  /\ UNCHANGED <<localStorage, route, cache, orphaned, login, mutation, apiVars, visibility>>

\* a FileUploader is shown: in the detail dialog, or on the page of a new repository
UploaderShown == ModalFree \/ route = "/repo-success"

\* FileUploader.handleFileSelect
handleFileSelect ==
  /\ UploaderShown
  /\ ui' = [ui EXCEPT !.uploadStatus = "idle", !.errorMessage = <<>>, !.output = "none"]
  /\ last' = Event("ui", <<"select", "">>, <<>>, FALSE)
  /\ UNCHANGED <<localStorage, route, cache, orphaned, login, mutation, apiVars, visibility>>

\* FileUploader.handleUpload: it awaits onUpload, the handleFileUpload of the
\* page, which sets isUploading, sets the onload callback, starts readAsText,
\* resets isUploading in finally and returns.  One upload is followed at a time.
handleUpload ==
  /\ UploaderShown /\ ui.reader = "idle"
  /\ ui' = [ui EXCEPT !.isUploading = FALSE, !.reader = "reading", !.uploadStatus = "success",
                      !.errorMessage = <<>>, !.output = "none"]
  /\ last' = Event("upload", <<"upload", ui.selectedRepo>>, <<>>, FALSE)
  /\ UNCHANGED <<localStorage, route, cache, orphaned, login, mutation, apiVars, visibility>>

\* the FileReader has read the file: the onload callback calls githubApi.uploadFile
ReaderLoad ==
  /\ ui.reader = "reading"
  /\ LET headers == getHeaders(localStorage)
     IN  IF headers.threw
         THEN /\ ui' = onloadFailure(ui, headers.error.message)
              /\ last' = Event("call_failed", <<"upload", ui.selectedRepo>>, <<>>, FALSE)
         ELSE /\ ui' = [ui EXCEPT !.reader = "request"]
              /\ last' = Event("ui", <<"onload", ui.selectedRepo>>, <<>>, FALSE)
  /\ UNCHANGED <<localStorage, route, cache, orphaned, login, mutation, apiVars, visibility>>

\* the PUT of uploadFile is answered inside the onload callback
UploadResponse(answer) ==
  /\ ui.reader = "request"
  /\ LET r == legacyResult("uploadFile", ui.selectedRepo, answer)
     IN  IF r.kind = "return"
         THEN /\ ui' = [ui EXCEPT !.reader = "idle"]
              /\ last' = Event("call", <<"upload", ui.selectedRepo>>, AnswerStatus(answer), TRUE)
         ELSE /\ ui' = onloadFailure(ui, r.error.message)
              /\ last' = Event("call_failed", <<"upload", ui.selectedRepo>>, AnswerStatus(answer), FALSE)
  /\ UNCHANGED <<localStorage, route, cache, orphaned, login, mutation, apiVars, visibility>>

\* the profile button of the Dashboard; UserProfileChart fetches GET /user when it mounts
ToggleProfile ==
  /\ PageFree
  /\ ui.chart = "idle"
  /\ IF ui.showProfile
     THEN ui' = [ui EXCEPT !.showProfile = FALSE, !.chartError = FALSE, !.output = "none"]
     ELSE IF ~Truthy(getItem(localStorage, tokenKey))
     THEN ui' = [ui EXCEPT !.showProfile = TRUE, !.chartError = TRUE, !.output = "console"]
     ELSE ui' = [ui EXCEPT !.showProfile = TRUE, !.chartError = FALSE, !.chart = "request",
                           !.output = "none"]
  /\ last' = Event("ui", <<"profile", "">>, <<>>, FALSE)
  /\ UNCHANGED <<localStorage, route, cache, orphaned, login, mutation, apiVars, visibility>>

\* UserProfileChart.fetchUserProfile after the await of fetch
ChartResponse(answer) ==
  /\ ui.chart = "request"
  /\ IF answer.kind = "response" /\ ok(answer)
     THEN ui' = [ui EXCEPT !.chart = "idle"]
     ELSE ui' = [ui EXCEPT !.chart = "idle", !.chartError = TRUE, !.output = "console"]
  /\ last' = Event("call", <<"chart", "">>, AnswerStatus(answer), answer.kind = "response" /\ ok(answer))
  /\ UNCHANGED <<localStorage, route, cache, orphaned, login, mutation, apiVars, visibility>>

\* RepoDetailModal: the Git tab is selected, fetchCurrentUser calls githubApi.getCurrentUser
GitTab ==
  /\ ModalFree /\ ui.gitTab = "idle"
  /\ LET headers == getHeaders(localStorage)
     IN  IF headers.threw
         THEN ui' = [ui EXCEPT !.output = "console"]
         ELSE ui' = [ui EXCEPT !.gitTab = "request", !.output = "none"]
  /\ last' = Event("ui", <<"gitTab", ui.selectedRepo>>, <<>>, FALSE)
  /\ UNCHANGED <<localStorage, route, cache, orphaned, login, mutation, apiVars, visibility>>

\* RepoDetailModal.fetchCurrentUser after the await of githubApi.getCurrentUser
GitTabResponse(answer) ==
  /\ ui.gitTab = "request"
  /\ LET r == legacyResult("getCurrentUser", "", answer)
     IN  ui' = [ui EXCEPT !.gitTab = "idle", !.output = IF r.kind = "return" THEN "none" ELSE "console"]
  /\ last' = Event("call", <<"gitTab", ui.selectedRepo>>, AnswerStatus(answer), FALSE)
  /\ UNCHANGED <<localStorage, route, cache, orphaned, login, mutation, apiVars, visibility>>

\* useRepositories delivers the list of an answered fetch: QueryResponse with
\* the data of a 200 answer; the Dashboard renders it
ListResponse(list) ==
  /\ cache[repositoriesKey].exists
  /\ cache[repositoriesKey].phase = "request"
  /\ cache' = [cache EXCEPT ![repositoriesKey] = QuerySucceeded(@)]
  /\ ui' = [RefetchSettled(ui, repositoriesKey, cache'[repositoriesKey])
              EXCEPT !.repositories = list, !.effect = TRUE]
  /\ last' = Event("response", repositoriesKey, <<200>>, FALSE)
  /\ visibility' = Listed(visibility, repositoriesKey, cache'[repositoriesKey])
  /\ UNCHANGED <<localStorage, route, orphaned, login, mutation, apiVars>>

\* the onChange of the search field
SearchChange(text) ==
  /\ PageFree
  /\ ui' = [ui EXCEPT !.searchQuery = text, !.effect = TRUE]
  /\ last' = Event("filter", <<"search">>, <<>>, FALSE)
  /\ UNCHANGED <<localStorage, route, cache, orphaned, login, mutation, apiVars, visibility>>

\* the onChange of the visibility filter
VisibilityChange(filter) ==
  /\ PageFree
  /\ ui' = [ui EXCEPT !.visibilityFilter = filter, !.effect = TRUE]
  /\ last' = Event("filter", <<"visibility">>, <<>>, FALSE)
  /\ UNCHANGED <<localStorage, route, cache, orphaned, login, mutation, apiVars, visibility>>

\* the onChange of the language filter: its options are 'all' and the
\* languages of the list
LanguageChange(language) ==
  /\ PageFree
  /\ language \in {"all"} \cup uniqueLanguages(ui.repositories)
  /\ ui' = [ui EXCEPT !.languageFilter = language, !.effect = TRUE]
  /\ last' = Event("filter", <<"language">>, <<>>, FALSE)
  /\ UNCHANGED <<localStorage, route, cache, orphaned, login, mutation, apiVars, visibility>>

\* the Previous button; the pagination controls are rendered for a list that
\* is not empty
Previous ==
  /\ PageFree /\ Filtered(ui) # <<>>
  /\ ui.currentPage # 1
  /\ ui' = [ui EXCEPT !.currentPage = IF @ - 1 > 1 THEN @ - 1 ELSE 1]
  /\ last' = Event("page", <<"previous">>, <<>>, FALSE)
  /\ UNCHANGED <<localStorage, route, cache, orphaned, login, mutation, apiVars, visibility>>

\* the Next button
NextPage ==
  /\ PageFree /\ Filtered(ui) # <<>>
  /\ ui.currentPage # totalPages(Len(Filtered(ui)))
  /\ ui' = [ui EXCEPT !.currentPage = Min(totalPages(Len(Filtered(ui))), @ + 1)]
  /\ last' = Event("page", <<"next">>, <<>>, FALSE)
  /\ UNCHANGED <<localStorage, route, cache, orphaned, login, mutation, apiVars, visibility>>

\* the effect of a render in which filteredRepos or totalPages changed
ResetEffect ==
  /\ route = "/dashboard"
  /\ ui.effect
  /\ ui' = [ui EXCEPT !.currentPage = pageReset(@, totalPages(Len(Filtered(ui)))), !.effect = FALSE]
  /\ last' = Event("effect", <<"page">>, <<>>, ui'.currentPage # ui.currentPage)
  /\ UNCHANGED <<localStorage, route, cache, orphaned, login, mutation, apiVars, visibility>>

\* the server carries out the PATCH of a toggle-visibility request in flight
ServerApplies ==
  /\ mutation.kind = "toggle" /\ mutation.phase = "request"
  /\ visibility.remote[mutation.repo] # mutation.makePrivate
  /\ visibility' = [visibility EXCEPT !.remote[mutation.repo] = mutation.makePrivate]
  /\ last' = Event("server", <<"toggle", mutation.repo>>, <<>>, mutation.makePrivate)
  /\ UNCHANGED <<localStorage, route, cache, orphaned, login, mutation, apiVars, uiVars>>

\* the answer of that server to the request of the mutation: a 2xx answer
\* comes from a server that has the visibility asked for
ServerResponse(answer) ==
  /\ ok(answer) => visibility.remote[mutation.repo] = mutation.makePrivate
  /\ MutationResponse(answer)

\* another tab of the application logs in or out: useAuth there writes the
\* localStorage both tabs share, and nothing of this tab is told
OtherTab(storage) ==
  /\ storage # localStorage
  /\ localStorage' = storage
  /\ last' = Event("storage", NoKey, <<>>, FALSE)
  /\ UNCHANGED <<route, cache, orphaned, login, mutation, apiVars, uiVars, visibility>>

(* The Dashboard: cards, confirmation dialog, creation dialog, refresh *)

InitUi == LoggedIn /\ ApiIdle

NextUi ==
  \/ \E answer \in PlainAnswers : QueryResponse(repositoriesKey, answer)
  \/ OrphanResponse
  \/ \E repo \in RepoNames : handleToggleVisibility(repo)
  \/ \E repo \in RepoNames : handleDeleteClick(repo)
  \/ \E text \in ConfirmTexts : ConfirmTextChange(text)
  \/ handleConfirm
  \/ handleClose
  \/ \E answer \in UiAnswers : MutationResponse(answer)
  \/ MutationRetry
  \/ handleRefreshClick
  \/ RefreshTimer
  \/ OpenCreateModal
  \/ \E name \in {<<"a">>} : handleNameChange(name)
  \/ CreateSubmit
  \/ \E answer \in UiAnswers : CreateResponse(answer)
  \/ BackToDashboard

SpecUi == InitUi /\ [][NextUi]_vars

(* The detail dialog of a repository, the file uploader and the profile chart *)

NextModal ==
  \/ \E answer \in PlainAnswers : QueryResponse(repositoriesKey, answer)
  \/ \E repo \in RepoNames : handleRepoClick(repo)
  \/ handleCloseModal
  \/ handleSaveChanges
  \/ \E answer \in UiAnswers : SaveResponse(answer)
  \/ handleFileDelete
  \/ \E answer \in UiAnswers : FileDeleteResponse(answer)
  \/ handleFileSelect
  \/ handleUpload
  \/ ReaderLoad
  \/ \E answer \in UiAnswers : UploadResponse(answer)
  \/ ToggleProfile
  \/ \E answer \in UiAnswers : ChartResponse(answer)
  \/ GitTab
  \/ \E answer \in UiAnswers : GitTabResponse(answer)

SpecModal == InitUi /\ [][NextModal]_vars

(* The list of the Dashboard: refreshes, filters and pages *)

NextList ==
  \/ \E list \in RepositoryLists : ListResponse(list)
  \/ handleRefreshClick
  \/ RefreshTimer
  \/ \E text \in SearchTexts : SearchChange(text)
  \/ \E filter \in {"all", "public", "private"} : VisibilityChange(filter)
  \/ \E language \in {"all", "Go", "TS"} : LanguageChange(language)
  \/ Previous
  \/ NextPage
  \/ ResetEffect

SpecList == InitUi /\ [][NextList]_vars

(* The visibility of the repositories: toggles from the cards and from the
   detail dialog, carried out by the server *)

NextToggle ==
  \/ \E answer \in PlainAnswers : QueryResponse(repositoriesKey, answer)
  \/ OrphanResponse
  \/ \E repo \in RepoNames : handleRepoClick(repo)
  \/ handleCloseModal
  \/ \E repo \in RepoNames : handleToggleVisibility(repo)
  \/ ServerApplies
  \/ \E answer \in UiAnswers : ServerResponse(answer)
  \/ MutationRetry

SpecToggle == InitUi /\ [][NextToggle]_vars

(* The refreshes of the Dashboard while another tab logs in and out *)

NextTabs ==
  \/ \E answer \in SessionAnswers : QueryResponse(repositoriesKey, answer)
  \/ QueryRetry(repositoriesKey)
  \/ handleRefreshClick
  \/ RefreshTimer
  \/ \E storage \in Storages : OtherTab(storage)

SpecTabs == InitUi /\ [][NextTabs]_vars

(* The creation dialog with every name typed *)

NextCreate ==
  \/ \E answer \in PlainAnswers : QueryResponse(repositoriesKey, answer)
  \/ OpenCreateModal
  \/ \E name \in TypedNames : handleNameChange(name)
  \/ CreateSubmit
  \/ \E answer \in UiAnswers : CreateResponse(answer)
  \/ BackToDashboard

SpecCreate == InitUi /\ [][NextCreate]_vars

(* One call of an API client operation, for every stored token and every answer *)

ApiInputs ==
  {[client |-> c, op |-> o, name |-> n, token |-> t, content |-> <<>>, answer |-> a] :
     c \in ApiClients, o \in ApiOps, n \in RepoNames,
     t \in {x \in TokenTexts : trim(x) # <<>>}, a \in Answers}

InitApi ==
  /\ localStorage \in Storages
  /\ route = "/"
  /\ cache = EmptyCache
  /\ orphaned = 0
  /\ login = IdleLogin
  /\ mutation = IdleMutation
  /\ last = Event("init", NoKey, <<>>, FALSE)
  /\ ui = IdleUi
  /\ visibility = InitialVisibility
  /\ apiIn \in {i \in ApiInputs : i.op \in ClientOps(i.client)}
  /\ apiOut = [called |-> FALSE, requests |-> <<>>, outcome |-> Return("none")]

Invoke ==
  /\ ~apiOut.called
  /\ LET r == ApiCall(apiIn.client, apiIn.op, apiIn.name, apiIn.token, apiIn.content,
                      localStorage, apiIn.answer)
     IN  apiOut' = [called |-> TRUE, requests |-> r.requests, outcome |-> r.outcome]
  /\ UNCHANGED <<sessionVars, apiIn, uiVars, visibility>>

NextApi == Invoke

SpecApi == InitApi /\ [][NextApi]_vars

(* The token: login, logout and the calls of the API clients in between *)

TokenCalls ==
  {i \in ApiInputs : i.op \in ClientOps(i.client) /\ i.name = "r1"
                     /\ i.answer.kind = "response" /\ i.answer.status = 200
                     /\ i.answer.body.json /\ i.answer.body.message = <<>> /\ i.answer.body.errors = <<>>}

\* an operation of an API client is called with the storage as it is
Call(input) ==
  /\ apiIn' = input
  /\ LET r == ApiCall(input.client, input.op, input.name, input.token, input.content,
                      localStorage, input.answer)
     IN  apiOut' = [called |-> TRUE, requests |-> r.requests, outcome |-> r.outcome]
  /\ UNCHANGED <<sessionVars, uiVars, visibility>>

NextToken ==
  \/ \E path \in Paths : PageLoad(path)
  \/ GetStarted
  \/ \E text \in TokenTexts : SubmitToken(text)
  \/ \E answer \in SessionAnswers : LoginResponse(answer)
  \/ LoginRedirect
  \/ logout
  \/ \E input \in TokenCalls : Call(input)

SpecToken == Init /\ [][NextToken]_vars

(* One call of uploadFile, for every file content *)

UploadInputs ==
  {[client |-> c, op |-> "uploadFile", name |-> "r1", token |-> <<"a">>, content |-> x, answer |-> a] :
     c \in ApiClients, x \in Texts,
     a \in {b \in PlainAnswers : b.status = 200}}

InitUpload ==
  /\ localStorage \in Storages
  /\ route = "/"
  /\ cache = EmptyCache
  /\ orphaned = 0
  /\ login = IdleLogin
  /\ mutation = IdleMutation
  /\ last = Event("init", NoKey, <<>>, FALSE)
  /\ ui = IdleUi
  /\ visibility = InitialVisibility
  /\ apiIn \in UploadInputs
  /\ apiOut = [called |-> FALSE, requests |-> <<>>, outcome |-> Return("none")]

SpecUpload == InitUpload /\ [][NextApi]_vars

----------------------------------------------------------------------------
(* Properties *)

Stored == tokenKey \in DOMAIN localStorage

AuthFailure(status) == status = <<401>> \/ status = <<403>>

Is2xx(status) == status # <<>> /\ status[1] >= 200 /\ status[1] <= 299

\* C1: isAuthenticated() is false exactly when no token is stored under the
\* token key; it is true right after a login() that returned true and false
\* right after logout().
C1_IsAuthenticated ==
  /\ isAuthenticated(localStorage) <=> Stored
  /\ (last.op = "login" /\ last.result) => isAuthenticated(localStorage)
  /\ last.op = "logout" => ~isAuthenticated(localStorage)

C1_Witness == last.op = "logout" /\ login.result = "true" /\ ~Stored

\* C2: login(token) returns true and stores the token exactly when GET /user
\* answers 2xx; on any other status and on a network exception it returns false
\* and the stored token is what it was.
C2_LoginStoresIffOk ==
  [][(login.pc = "validating" /\ last'.op = "login") =>
       /\ last'.result <=> Is2xx(last'.status)
       /\ last'.result => (localStorage' = setItem(localStorage, tokenKey, login.token)
                           /\ login'.result = "true")
       /\ ~last'.result => (localStorage' = localStorage /\ login'.result = "false")]_vars

C2_Witness == last.op = "login" /\ ~last.result /\ Stored /\ localStorage[tokenKey] # last.key

\* C3: after logout() the query cache is empty until the next login, also when
\* a read was in flight at the moment of logout and is answered afterwards.
C3_NoCacheAfterLogout ==
  /\ ~isAuthenticated(localStorage) => cache = EmptyCache
  /\ last.op = "logout" => cache = EmptyCache

C3_Witness == last.op = "orphan" /\ ~Stored /\ route = "/"

\* C4: every API client operation other than validateToken, called while no
\* token is stored, throws a GitHubApiError without status and sends no request.
C4_NoTokenNoRequest ==
  (apiOut.called /\ apiIn.op # "validateToken" /\ ~Stored) =>
     /\ apiOut.requests = <<>>
     /\ apiOut.outcome.kind = "throw"
     /\ apiOut.outcome.error.name = "GitHubApiError"
     /\ apiOut.outcome.error.status = <<>>

C4_Witness ==
  /\ apiOut.called /\ apiIn.client = "api" /\ apiIn.op = "fetchRepositories" /\ ~Stored
  /\ apiOut.requests = <<>> /\ apiOut.outcome.error.message = NoTokenMessage

\* the cache entries the claim names for each mutation
Family(kind, repo) ==
  CASE kind \in {"create", "delete"} -> {repositoriesKey, userKey}
    [] kind \in {"update", "toggle"} -> {repositoriesKey, repositoryKey(Owner, repo)}
    [] OTHER -> {}

\* C5: when a mutation hook has succeeded, no entry of the affected family is
\* served from the cache: create and delete invalidate the repository list and
\* the current user, update and toggle the repository list and the entry of
\* that repository; a cached entry is marked invalidated and its fresh request
\* is out.
C5_MutationInvalidates ==
  last.op = "mutation" =>
    \A k \in Family(last.key[1], last.key[2]) :
      /\ ~ServedFromCache(cache[k])
      /\ cache[k].exists => (cache[k].isInvalidated /\ cache[k].phase = "request")

C5_Witness ==
  /\ last.op = "mutation" /\ last.key = <<"toggle", "r2">>
  /\ cache[repositoryKey(Owner, "r2")].data /\ cache[repositoryKey(Owner, "r2")].phase = "request"
  /\ cache[repositoriesKey].data /\ cache[repositoriesKey].phase = "request"

\* C6: a read whose fetch is answered 401 or 403 is not retried: the query goes
\* to its error state with that status and no further attempt is scheduled.
C6_NoRetryOnAuthFailure ==
  /\ (last.op = "response" /\ AuthFailure(last.status)) =>
       /\ ~last.result
       /\ cache[last.key].phase = "idle"
       /\ cache[last.key].error = <<[name |-> "GitHubApiError", status |-> last.status]>>
  /\ \A k \in Keys : cache[k].phase = "backoff" => ~AuthFailure(cache[k].error[1].status)

C6_Witness ==
  /\ last.op = "response" /\ last.status = <<403>>
  /\ cache[last.key].fetchFailureCount = 1 /\ cache[last.key].phase = "idle"

\* C7: a read answered 500 every time is retried while failureCount < 3: no
\* fetch makes more than 4 attempts, and the fourth failure is the query's error.
C7_RetryCeiling ==
  /\ \A k \in Keys : /\ cache[k].fetchFailureCount <= retryCeiling + 1
                     /\ cache[k].phase # "idle" => cache[k].fetchFailureCount <= retryCeiling
  /\ (last.op = "response" /\ last.status = <<500>>) =>
       IF cache[last.key].fetchFailureCount <= retryCeiling
       THEN last.result /\ cache[last.key].phase = "backoff"
       ELSE /\ ~last.result
            /\ cache[last.key].phase = "idle"
            /\ cache[last.key].error = <<[name |-> "GitHubApiError", status |-> <<500>>]>>

C7_Witness ==
  /\ last.op = "response" /\ last.status = <<500>> /\ ~last.result
  /\ cache[last.key].fetchFailureCount = retryCeiling + 1

\* C8: an operation of the fetching layer that fails with 401 or 403 is not
\* retried, a mutation no more than a read.
C8_NoMutationRetryOnAuthFailure ==
  (last.op = "mutation_failed" /\ AuthFailure(last.status)) =>
     (~last.result /\ mutation.phase # "backoff")

\* C9: createRepository answered 422 with a sub-error (name, already_exists)
\* throws status 422 with the duplicate-name message for the requested name,
\* and no other failure of createRepository gets a duplicate-name message.
DuplicateAnswer(answer) ==
  /\ answer.kind = "response" /\ answer.status = 422 /\ answer.body.json
  /\ answer.body.errors # <<>> /\ HasNameError(answer.body.errors[1])

C9_DuplicateName ==
  (apiOut.called /\ apiIn.op = "createRepository" /\ Stored /\ apiOut.outcome.kind = "throw") =>
     IF DuplicateAnswer(apiIn.answer)
     THEN /\ apiOut.outcome.error.name = "GitHubApiError"
          /\ apiOut.outcome.error.status = <<422>>
          /\ apiOut.outcome.error.message = DuplicateNameMessage(apiIn.name)
     ELSE \A n \in RepoNames : apiOut.outcome.error.message # DuplicateNameMessage(n)

C9_Witness ==
  /\ apiOut.called /\ apiIn.op = "createRepository" /\ apiIn.client = "api" /\ Stored
  /\ apiIn.answer.status = 422 /\ apiIn.answer.body.errors = <<<<NameInvalid, NameExists>>>>
  /\ apiIn.answer.body.message = <<"Validation Failed">>
  /\ apiOut.outcome.error.message = DuplicateNameMessage(apiIn.name)

\* C10: every operation of the GitHubApi class that gets a non-success status
\* throws a GitHubApiError with that status whose message is the message field
\* of the JSON error body when there is one and else the generic message built
\* from status and status text (the duplicate-name remap of C9 set aside).
C10_ErrorFromBody ==
  (/\ apiOut.called /\ apiIn.client = "api" /\ apiIn.op # "validateToken" /\ Stored
   /\ apiIn.answer.kind = "response" /\ ~ok(apiIn.answer)
   /\ ~(apiIn.op = "createRepository" /\ DuplicateAnswer(apiIn.answer))) =>
     /\ apiOut.outcome.kind = "throw"
     /\ apiOut.outcome.error.name = "GitHubApiError"
     /\ apiOut.outcome.error.status = <<apiIn.answer.status>>
     /\ apiOut.outcome.error.message =
          IF apiIn.answer.body.json /\ apiIn.answer.body.message # <<>>
          THEN apiIn.answer.body.message
          ELSE <<"Request failed with status ", ToString(apiIn.answer.status), ": ",
                 statusText(apiIn.answer.status)>>

\* the value of a base64 character, -1 for the padding
Base64Value(c) ==
  IF c >= 65 /\ c <= 90 THEN c - 65
  ELSE IF c >= 97 /\ c <= 122 THEN c - 71
  ELSE IF c >= 48 /\ c <= 57 THEN c + 4
  ELSE IF c = 43 THEN 62
  ELSE IF c = 47 THEN 63
  ELSE 0 - 1

\* base64 decoding: four characters give three bytes, less for a padded group
RECURSIVE Base64Decode(_)
Base64Decode(t) ==
  IF Len(t) < 4 THEN <<>>
  ELSE LET a == Base64Value(t[1])
           b == Base64Value(t[2])
           c == Base64Value(t[3])
           d == Base64Value(t[4])
           rest == Base64Decode(SubSeq(t, 5, Len(t)))
       IN  IF c < 0 THEN <<a * 4 + b \div 16>>
           ELSE IF d < 0 THEN <<a * 4 + b \div 16, (b % 16) * 16 + c \div 4>>
           ELSE <<a * 4 + b \div 16, (b % 16) * 16 + c \div 4, (c % 4) * 64 + d>> \o rest

Continuation(bytes, i) == Len(bytes) >= i /\ bytes[i] >= 128 /\ bytes[i] <= 191

\* the UTF-16 code units of a code point
CodeUnitsOf(cp) ==
  IF cp < 65536 THEN <<cp>>
  ELSE <<55296 + (cp - 65536) \div 1024, 56320 + ((cp - 65536) % 1024)>>

\* UTF-8 decoding; an invalid sequence decodes to the replacement character
RECURSIVE UTF8Decode(_)
UTF8Decode(bytes) ==
  IF bytes = <<>> THEN <<>>
  ELSE LET b == bytes[1]
       IN  IF b < 128 THEN <<b>> \o UTF8Decode(Tail(bytes))
           ELSE IF b >= 194 /\ b <= 223 /\ Continuation(bytes, 2)
           THEN <<(b - 192) * 64 + (bytes[2] - 128)>> \o UTF8Decode(SubSeq(bytes, 3, Len(bytes)))
           ELSE IF b >= 224 /\ b <= 239 /\ Continuation(bytes, 2) /\ Continuation(bytes, 3)
           THEN <<(b - 224) * 4096 + (bytes[2] - 128) * 64 + (bytes[3] - 128)>>
                \o UTF8Decode(SubSeq(bytes, 4, Len(bytes)))
           ELSE IF /\ b >= 240 /\ b <= 244 /\ Continuation(bytes, 2)
                   /\ Continuation(bytes, 3) /\ Continuation(bytes, 4)
           THEN CodeUnitsOf((b - 240) * 262144 + (bytes[2] - 128) * 4096
                            + (bytes[3] - 128) * 64 + (bytes[4] - 128))
                \o UTF8Decode(SubSeq(bytes, 5, Len(bytes)))
           ELSE <<65533>> \o UTF8Decode(Tail(bytes))

C14_NetworkErrorType ==
  (apiOut.called /\ apiIn.op # "validateToken" /\ Stored /\ apiIn.answer.kind = "reject") =>
     /\ apiOut.outcome.kind = "throw"
     /\ apiOut.outcome.error.name = "GitHubApiError"
     /\ apiOut.outcome.error.status = <<>>

\* the error display of the control that starts each mutating operation; a
\* visibility toggle has none of its own, the Dashboard has the banner of the list
ErrorShown(kind) ==
  CASE kind = "create" -> ui.createError # <<>>
    [] kind = "update" -> ui.saveError # <<>>
    [] kind = "delete" -> ui.deleteError # <<>>
    [] kind = "deleteFile" -> ui.output = "alert"
    [] kind = "upload" -> ui.uploadStatus = "error"
    [] OTHER -> cache[repositoriesKey].error # <<>>

\* C12: when a mutating operation started from the UI has failed, the control
\* that started it shows an error.
C12_FailureShown ==
  (last.op = "call_failed" \/ (last.op = "mutation_failed" /\ ~last.result)) =>
     ErrorShown(last.key[1])

\* C13: handleFileUpload returns before the file is read: FileUploader shows
\* 'success' as soon as the upload is started, and a failure of the PUT inside
\* the onload callback reaches nobody: the status never becomes 'error'.
C13_UploadFailureDropped ==
  /\ last.op = "upload" =>
       (ui.uploadStatus = "success" /\ ui.errorMessage = <<>> /\ ~ui.isUploading /\ ui.reader = "reading")
  /\ (last.op = "call_failed" /\ last.key[1] = "upload") =>
       (ui.uploadStatus # "error" /\ ui.errorMessage = <<>> /\ ui.output = "unhandled")
  /\ ui.uploadStatus # "error"

C13_Witness ==
  /\ last.op = "call_failed" /\ last.key[1] = "upload" /\ last.status = <<403>>
  /\ ui.uploadStatus = "success" /\ ui.output = "unhandled"

\* the GET /user requests in flight: the user query, the profile chart, the Git tab
InFlightUser ==
  (IF cache[userKey].exists /\ cache[userKey].phase = "request" THEN 1 ELSE 0)
  + (IF ui.chart = "request" THEN 1 ELSE 0)
  + (IF ui.gitTab = "request" THEN 1 ELSE 0)

\* C15: at no time are two GET /user requests of the components in flight.
C15_ReadsCoalesced == InFlightUser <= 1

C17_Routes ==
  /\ route \in ProtectedRoutes => Stored
  /\ last.op = "load" =>
       route = (IF last.key[1] \in {"/dashboard", "/repo-success"}
                THEN (IF Stored THEN last.key[1] ELSE "/token")
                ELSE IF last.key[1] \in {"/", "/token"} THEN last.key[1]
                ELSE "/")
  /\ last.op = "logout" => route = "/"

C17_Witness == last.op = "load" /\ last.key = <<"/repo-success">> /\ ~Stored /\ route = "/token"

\* C18: a DELETE of a repository is in progress only while the confirmation
\* dialog is open for that repository with exactly its name typed; a confirm
\* with any other text sets the mismatch error and calls nothing.
C18_DeleteNeedsName ==
  /\ (mutation.kind = "delete" /\ mutation.phase # "idle") =>
       /\ ui.showDeleteConfirm /\ ui.isDeleting
       /\ ui.repoToDelete = mutation.repo
       /\ ui.confirmText = mutation.repo
  /\ (last.op = "confirm" /\ ui.confirmText # ui.repoToDelete) =>
       (~last.result /\ ui.deleteError = MismatchMessage /\ ~ui.isDeleting /\ mutation.phase = "idle")

C18_Witness ==
  /\ mutation.kind = "delete" /\ mutation.phase = "request" /\ mutation.repo = "r2"
  /\ ui.confirmText = "r2" /\ ui.isDeleting

\* C19: when a creation through CreateRepoModal has succeeded, a fetch of the
\* repository list has been started for it or the list entry is invalidated.
C19_CreateRefreshes ==
  last.op = "created" => (last.result \/ cache[repositoriesKey].isInvalidated)

\* C20: after a successful upload or file deletion through the hooks no
\* contents listing of that repository, root or sub-directory, is served from
\* the cache.
C20_ContentsInvalidated ==
  (last.op = "mutation" /\ last.key[1] \in {"upload", "deleteFile"}) =>
     \A path \in ContentPaths :
        repositoryContentsKey(Owner, last.key[2], path) \in Keys =>
           ~ServedFromCache(cache[repositoryContentsKey(Owner, last.key[2], path)])

\* C21: clicks on the refresh button that each follow the previous one within
\* 100 ms (the timer of the previous click is still pending) leave one timer,
\* hence one call of handleRefresh, and handleRefresh calls refetch() only when
\* no fetch of the repository list is in progress
C21_RefreshGuarded ==
  [][/\ Len(ui'.timers) <= 1
     /\ (last'.op = "refresh" /\ last'.result) => ~Fetching(cache[repositoriesKey])]_vars

\* C22: once the page-reset effect has run, currentPage is in 1..max(1, totalPages);
\* the effect leaves a page within range as it is; the page displayed has at
\* most reposPerPage repositories
C22_PageInRange ==
  [][/\ ~ui'.effect =>
          /\ 1 <= ui'.currentPage
          /\ ui'.currentPage <= (IF totalPages(Len(Filtered(ui'))) > 1
                                 THEN totalPages(Len(Filtered(ui'))) ELSE 1)
     /\ (last'.op \in {"filter", "effect"} /\ ui.currentPage <= (Len(Filtered(ui')) + 11) \div 12)
          => ui'.currentPage = ui.currentPage
     /\ Len(paginatedRepos(Filtered(ui'), ui'.currentPage)) <= 12]_vars

\* a change of the visibility filter on page 2 left two pages or more, and the
\* effect has run without resetting the page
C22_Witness ==
  /\ last.op = "effect" /\ ~last.result
  /\ ui.currentPage = 2 /\ ui.visibilityFilter # "all"

\* two characters that are the same letter
SameLetter(x, y) == x = y \/ {x, y} \in {{"a", "A"}, {"b", "B"}}

\* q occurs in s, letter by letter, whatever the case
OccursIn(q, s) ==
  \E i \in 1..(Len(s) - Len(q) + 1) : \A j \in 1..Len(q) : SameLetter(s[i + j - 1], q[j])

\* the repository passes the three filters of the Dashboard
Passes(repo, u) ==
  /\ \/ OccursIn(u.searchQuery, repo.name)
     \/ repo.description # <<>> /\ OccursIn(u.searchQuery, repo.description[1])
  /\ u.visibilityFilter = "all" \/ (u.visibilityFilter = "private") = repo.private
  /\ u.languageFilter = "all" \/ repo.language = <<u.languageFilter>>

\* C23: filteredRepos is the cached list restricted, in its order, to the
\* repositories that pass the search, the visibility and the language filter
C23_Filtered ==
  LET passing == {i \in 1..Len(ui.repositories) : Passes(ui.repositories[i], ui)}
      filtered == Filtered(ui)
  IN  /\ Len(filtered) = Cardinality(passing)
      /\ \A j \in 1..Len(filtered) :
            filtered[j] = ui.repositories[CHOOSE i \in passing : Cardinality({k \in passing : k <= i}) = j]

\* the three filters are active and keep a part of the list, found by its name
\* in another case
C23_Witness ==
  /\ ui.searchQuery = <<"a", "b">> /\ ui.visibilityFilter = "public" /\ ui.languageFilter = "Go"
  /\ Filtered(ui) # <<>> /\ Len(Filtered(ui)) < Len(ui.repositories)

\* a name that is not blank, made of letters, digits, '.', '_' and '-' only,
\* of 100 characters at most, and not starting with '.' or '-'
ValidName(name) ==
  /\ \E i \in 1..Len(name) : name[i] # " "
  /\ \A i \in 1..Len(name) : name[i] \in {"a", "Z", "7", ".", "_", "-"}
  /\ Len(name) <= 100
  /\ name # <<>> => name[1] \notin {".", "-"}

\* C24: the create request is in flight only for a valid name, and for the
\* name typed validateRepoName and validateRepositoryName both accept it, exactly
\* when it is valid, or both reject it with the same message
C24_CreateValidated ==
  /\ ui.isCreating => ValidName(ui.formName)
  /\ \/ /\ ValidName(ui.formName)
        /\ validateRepoName(ui.formName) = <<>>
        /\ validateRepositoryName(ui.formName) = Null
     \/ /\ ~ValidName(ui.formName)
        /\ validateRepoName(ui.formName) # <<>>
        /\ validateRepositoryName(ui.formName) = validateRepoName(ui.formName)

\* the request for a name of exactly 100 characters is in flight
C24_Witness == ui.isCreating /\ Len(ui.formName) = 100

\* the onConfirm of the confirmation dialog has been called and has not settled:
\* the deletion or the refetch that follows it is in progress
ConfirmPending == (mutation.kind = "delete" /\ mutation.phase # "idle") \/ ui.refetching

\* C25: isDeleting is true exactly while onConfirm has not settled; handleClose
\* changes nothing while it is true; a failed onConfirm leaves the dialog open
\* with the error and the typed text; only a successful one closes the dialog,
\* and the text is cleared then
C25_BusyDialog ==
  [][/\ ui'.isDeleting <=> ConfirmPending'
     /\ ui.isDeleting /\ last'.op = "close" =>
          ui'.showDeleteConfirm /\ ui'.isDeleting /\ ui'.confirmText = ui.confirmText
     /\ ui.isDeleting /\ ~ui'.isDeleting /\ last'.op \in {"mutation_failed", "mutation_retry"} =>
          ui'.showDeleteConfirm /\ ui'.deleteError # <<>> /\ ui'.confirmText = ui.confirmText
     /\ ui.isDeleting /\ ~ui'.showDeleteConfirm =>
          ui.refetching /\ ui'.confirmText = "" /\ ~ui'.isDeleting]_vars

\* the dialog was asked to close while the deletion was running
C25_Witness == last.op = "close" /\ ~last.result /\ ui.showDeleteConfirm /\ ui.isDeleting

\* C26: a step in which a call of a mutation hook is started, fails or is
\* retried leaves every entry of the query cache as it was: nothing is
\* invalidated and no fetch starts
C26_FailureKeepsCache ==
  [][last'.op \in {"mutate", "mutation_failed", "mutation_retry"} => cache' = cache]_vars

\* an upload has failed for good while the listing of the repository was cached
C26_Witness ==
  /\ last.op = "mutation_failed" /\ ~last.result /\ last.key = <<"upload", "r1">>
  /\ ServedFromCache(cache[repositoryContentsKey(Owner, "r1", undefined)])

\* C27: while the PUT of an upload is in flight, the isUploading passed to the
\* FileUploader is true
C27_UploadingWhileInFlight == ui.reader = "request" => ui.isUploading

\* C28: a toggle-visibility request asks for the negation of the private flag
\* that the cached list has for the repository
C28_ToggleNegatesCached ==
  [][(last'.op = "mutate" /\ mutation'.kind = "toggle" /\ mutation'.phase = "request")
       => mutation'.makePrivate = ~visibility.listed[mutation'.repo]]_vars

\* C29: when the first call of the queryFn of a fetch fails for want of a token
\* (the GitHubApiError without status of getHeaders), the query is in the error
\* state at once: no retry is pending
C29_NoTokenTerminal ==
  [][\A k \in Keys :
       (/\ cache[k].fetchFailureCount = 0 /\ cache'[k].fetchFailureCount = 1
        /\ cache'[k].error = <<[name |-> "GitHubApiError", status |-> <<>>]>>)
       => cache'[k].phase = "idle"]_vars

====
